---- MODULE Spec2Model ----
(***************************************************************************)
(* TodaySudoku: the puzzle engine (validator, backtracking solver,         *)
(* uniqueness counter, daily puzzle generator).                            *)
(*                                                                         *)
(* A board is a JavaScript number[][]: an array of 9 row objects.  The     *)
(* solver part of the model keeps the row objects in a heap so that the    *)
(* difference between a deep copy and a shared row is visible.             *)
(***************************************************************************)
EXTENDS Integers, Sequences, FiniteSets, TLC

VARIABLES
    heap,       \* row objects: row id -> [0..8 -> 0..9]
    grid,       \* the caller's board: [0..8 -> row id]
    given,      \* content of the caller's board when the last call started
    op,         \* the last call: "none", "solveBoard", "hasUniqueSolution",
                \*   "validateSudokuBoard", "isBoardComplete", "isValidPlacement"
    args,       \* arguments (row, col, value) of the last isValidPlacement
    ret,        \* what the last call returned
    filled,     \* number of cell assignments the last search made
    wrote,      \* ids of the row objects the last search wrote to
    copyRows,   \* ids of the rows of the copy made by the last hasUniqueSolution
    search,     \* the countSolutions search in progress: board, stack, place, count
    rng,        \* which pseudo-random streams Math.sin yields (fixed for a run)
    generated,  \* what the regeneration branch of generateSudokuPuzzle computes,
                \*   per (day, difficulty), under rng
    now,        \* the UTC clock: index of the current day in Days
    dailyPuzzles, \* the module-level cache: difficulty -> entry or None
    request,    \* difficulty of the last generateSudokuPuzzle call
    puzzle,     \* the grid the last generateSudokuPuzzle call returned
    path,       \* how the last call got its entry: "hit", "unique", "fallback"
    verdict,    \* final check of the last call: "unique", "multiple", "unsolvable"
    first,      \* (day, difficulty) -> the first grid returned for it, or None
    repeat,     \* the last call was for a (day, difficulty) already served before
    \* the game store (useSudoku)
    gameBoard,      \* board
    originalBoard,
    solution,
    notes,
    gameDifficulty, \* difficulty
    selectedCell,
    isComplete,
    hasWon,
    elapsedSeconds,
    timerInterval,
    isNoteMode,
    live,           \* ids of the intervals window.setInterval has running
    created,        \* number of intervals created so far (the next id)
    storeOp,        \* the store action called last
    storeRet,       \* what it returned (None when it returns nothing)
    solved,         \* per generated puzzle: the grid solveBoard leaves, and the
                    \*   grid a solver trying 9..1 leaves (the player's other plan)
    other,          \* the other plan for the current game
    \* the leaderboard server
    leaderboards,   \* the stored entries, in order of insertion
    posts           \* the POST /api/leaderboard requests: client, body, place, answer

solverVars == <<heap, grid, given, op, args, ret, filled, wrote, copyRows, search>>

generatorVars == <<rng, generated, now, dailyPuzzles, request, puzzle, path, verdict,
                   first, repeat>>

storeVars == <<gameBoard, originalBoard, solution, notes, gameDifficulty, selectedCell,
               isComplete, hasWon, elapsedSeconds, timerInterval, isNoteMode, live, created,
               storeOp, storeRet, solved, other>>

serverVars == <<leaderboards, posts>>

vars == <<heap, grid, given, op, args, ret, filled, wrote, copyRows, search,
          rng, generated, now, dailyPuzzles, request, puzzle, path, verdict, first, repeat,
          gameBoard, originalBoard, solution, notes, gameDifficulty, selectedCell,
          isComplete, hasWon, elapsedSeconds, timerInterval, isNoteMode, live, created,
          storeOp, storeRet, solved, other, leaderboards, posts>>

----------------------------------------------------------------------------
(* Boards as values *)

Idx == 0..8
Digits == 1..9
None == <<>>

EmptyBoard == [r \in Idx |-> [c \in Idx |-> 0]]

\* the row objects of a board, read through the heap
Deref(h, ref) == [r \in Idx |-> h[ref[r]]]

\* the heap after the board behind ref has been overwritten in place with b
WriteBack(h, ref, b) ==
    [id \in DOMAIN h |->
        IF \E r \in Idx : ref[r] = id
        THEN b[CHOOSE r \in Idx : ref[r] = id]
        ELSE h[id]]

----------------------------------------------------------------------------
(* Validator *)

\* variant: an empty cell is treated like a digit
RECURSIVE isValidUnitFromCountingZero(_, _, _)
isValidUnitFromCountingZero(unit, i, seen) ==
    IF i > Len(unit) THEN TRUE
    ELSE IF unit[i] \in seen THEN FALSE
    ELSE isValidUnitFromCountingZero(unit, i + 1, seen \cup {unit[i]})

RECURSIVE isValidUnitFrom(_, _, _)
isValidUnitFrom(unit, i, seen) ==
    IF i > Len(unit) THEN TRUE
    ELSE IF unit[i] = 0 THEN isValidUnitFrom(unit, i + 1, seen)
    ELSE IF unit[i] \in seen THEN FALSE
    ELSE isValidUnitFrom(unit, i + 1, seen \cup {unit[i]})

isValidUnit(unit) == isValidUnitFrom(unit, 1, {})

getBox(board, boxRow, boxCol) ==
    LET startRow == boxRow * 3
        startCol == boxCol * 3
    IN  [k \in 1..9 |-> board[startRow + ((k - 1) \div 3)][startCol + ((k - 1) % 3)]]

validateSudokuBoard(board) ==
    /\ \A row \in Idx : isValidUnit([k \in 1..9 |-> board[row][k - 1]])
    /\ \A col \in Idx : isValidUnit([k \in 1..9 |-> board[k - 1][col]])
    /\ \A boxRow \in 0..2 : \A boxCol \in 0..2 :
          isValidUnit(getBox(board, boxRow, boxCol))

isBoardComplete(board) ==
    \A row \in Idx : \A col \in Idx : board[row][col] # 0

\* variant: the scans do not skip the cell itself
isValidPlacementWithSelf(board, row, col, value) ==
    IF value = 0 THEN TRUE
    ELSE
        /\ \A c \in Idx : ~(board[row][c] = value)
        /\ \A r \in Idx : ~(board[r][col] = value)
        /\ LET boxStartRow == (row \div 3) * 3
               boxStartCol == (col \div 3) * 3
           IN  \A r \in boxStartRow..(boxStartRow + 2) :
                 \A c \in boxStartCol..(boxStartCol + 2) :
                    ~(board[r][c] = value)

\* variant: the box scan is left out
isValidPlacementNoBox(board, row, col, value) ==
    IF value = 0 THEN TRUE
    ELSE
        /\ \A c \in Idx : ~(c # col /\ board[row][c] = value)
        /\ \A r \in Idx : ~(r # row /\ board[r][col] = value)

\* variant: the column scan skips the wrong index (r !== col)
isValidPlacementColumnSlip(board, row, col, value) ==
    IF value = 0 THEN TRUE
    ELSE
        /\ \A c \in Idx : ~(c # col /\ board[row][c] = value)
        /\ \A r \in Idx : ~(r # col /\ board[r][col] = value)
        /\ LET boxStartRow == (row \div 3) * 3
               boxStartCol == (col \div 3) * 3
           IN  \A r \in boxStartRow..(boxStartRow + 2) :
                 \A c \in boxStartCol..(boxStartCol + 2) :
                    ~((r # row \/ c # col) /\ board[r][c] = value)

isValidPlacement(board, row, col, value) ==
    IF value = 0 THEN TRUE
    ELSE
        /\ \A c \in Idx : ~(c # col /\ board[row][c] = value)
        /\ \A r \in Idx : ~(r # row /\ board[r][col] = value)
        /\ LET boxStartRow == (row \div 3) * 3
               boxStartCol == (col \div 3) * 3
           IN  \A r \in boxStartRow..(boxStartRow + 2) :
                 \A c \in boxStartCol..(boxStartCol + 2) :
                    ~((r # row \/ c # col) /\ board[r][c] = value)

----------------------------------------------------------------------------
(* Solver *)

\* the first empty cell in row-major order, as the two nested loops find it
findEmptyCell(board) ==
    IF \A row \in Idx : \A col \in Idx : board[row][col] # 0 THEN None
    ELSE LET row == CHOOSE r \in Idx :
                       /\ \E c \in Idx : board[r][c] = 0
                       /\ \A rr \in 0..(r - 1) : \A c \in Idx : board[rr][c] # 0
             col == CHOOSE c \in Idx :
                       /\ board[row][c] = 0
                       /\ \A cc \in 0..(c - 1) : board[row][cc] # 0
         IN  <<row, col>>

(* The two searches are recursive in the source.  Here a search is the      *)
(* machine that runs the recursion: the board, the stack of the active      *)
(* calls' loop frames <<row, col, num>>, and the place in the code.         *)

Top(stack) == stack[Len(stack)]
Pop(stack) == SubSeq(stack, 1, Len(stack) - 1)
SetNum(stack, num) == [stack EXCEPT ![Len(stack)][3] = num]

\* variant: the loop takes the largest valid num >= from
NextValidLargest(board, row, col, from) ==
    IF \A v \in from..9 : ~isValidPlacement(board, row, col, v) THEN 10
    ELSE CHOOSE v \in from..9 :
            /\ isValidPlacement(board, row, col, v)
            /\ \A u \in (v + 1)..9 : ~isValidPlacement(board, row, col, u)

\* the next num >= from that the loop `for (num...; num <= 9; num++)' finds
\* valid for (row, col), or 10 when the loop runs out
NextValid(board, row, col, from) ==
    IF \A v \in from..9 : ~isValidPlacement(board, row, col, v) THEN 10
    ELSE CHOOSE v \in from..9 :
            /\ isValidPlacement(board, row, col, v)
            /\ \A u \in from..(v - 1) : ~isValidPlacement(board, row, col, u)

\* how many machine steps a call may take: 2^FuelLog
FuelLog == 24

\* One step of solveBoard.  m = [board, stack, pc, filled]
\*   "call"    entering solveBoard (lines 5-12)
\*   "loop"    in the for loop of the top frame, about to test num (lines 15-16)
\*   "failed"  a call returned false (line 31) to the frame below it
\*   "true" / "false"  the outermost call has returned
\* A "loop" step runs the loop up to the next valid num and assigns it
\* (line 18), or leaves the loop.  filled counts the assignments.
solveBoardEnter(m, emptyCell) ==
    IF emptyCell = None
    THEN [m EXCEPT !.pc = "true"]   \* every caller returns true in turn (line 22)
    ELSE [m EXCEPT !.stack = Append(@, <<emptyCell[1], emptyCell[2], 1>>),
                   !.pc = "loop"]

\* variant: the loop stops before 9 (num < 9)
solveBoardTryUpTo8(m, row, col, num) ==
    IF num > 8
    THEN [m EXCEPT !.stack = Pop(@), !.pc = "failed"]
    ELSE [m EXCEPT !.board[row][col] = num,
                   !.stack = SetNum(@, num),
                   !.filled = @ + 1,
                   !.pc = "call"]

solveBoardTry(m, row, col, num) ==
    IF num > 9
    THEN [m EXCEPT !.stack = Pop(@), !.pc = "failed"]
    ELSE [m EXCEPT !.board[row][col] = num,
                   !.stack = SetNum(@, num),
                   !.filled = @ + 1,
                   !.pc = "call"]

\* variant: a failed attempt is not reset to 0
solveBoardBacktrackNoReset(m, row, col, num) ==
    [m EXCEPT !.stack = SetNum(@, num + 1),
              !.pc = "loop"]

solveBoardBacktrack(m, row, col, num) ==
    [m EXCEPT !.board[row][col] = 0,
              !.stack = SetNum(@, num + 1),
              !.pc = "loop"]

solveBoardStep(m) ==
    CASE m.pc = "call" -> solveBoardEnter(m, findEmptyCell(m.board))
      [] m.pc = "loop" ->
            solveBoardTry(m, Top(m.stack)[1], Top(m.stack)[2],
                          NextValid(m.board, Top(m.stack)[1], Top(m.stack)[2],
                                    Top(m.stack)[3]))
      [] m.pc = "failed" ->
            IF m.stack = <<>>
            THEN [m EXCEPT !.pc = "false"]
            ELSE solveBoardBacktrack(m, Top(m.stack)[1], Top(m.stack)[2],
                                     Top(m.stack)[3])
      [] OTHER -> m

RECURSIVE solveBoardRun(_, _)
solveBoardRun(k, m) ==
    IF m.pc \in {"true", "false"} THEN m
    ELSE IF k = 0 THEN solveBoardStep(m)
    ELSE solveBoardRun(k - 1, solveBoardRun(k - 1, m))

\* solveBoard returns [ok, board, filled]: the return value, the board as the
\* call leaves it, and the number of assignments made.
solveBoardResult(m) ==
    [ok     |-> IF m.pc = "true" THEN TRUE
                ELSE IF m.pc = "false" THEN FALSE ELSE "out of fuel",
     board  |-> m.board,
     filled |-> m.filled]

solveBoard(board) ==
    solveBoardResult(solveBoardRun(FuelLog, [board |-> board, stack |-> <<>>,
                                             pc |-> "call", filled |-> 0]))

\* A backtracking solver that differs from solveBoard only in the order in
\* which the loop of line 15 tries the digits: order[1], ..., order[9].  The
\* third component of a frame is the position in order.
NextValidIn(order, board, row, col, from) ==
    IF \A i \in from..9 : ~isValidPlacement(board, row, col, order[i]) THEN 10
    ELSE CHOOSE i \in from..9 :
            /\ isValidPlacement(board, row, col, order[i])
            /\ \A j \in from..(i - 1) : ~isValidPlacement(board, row, col, order[j])

solveInOrderTry(m, row, col, i, order) ==
    IF i > 9
    THEN [m EXCEPT !.stack = Pop(@), !.pc = "failed"]
    ELSE [m EXCEPT !.board[row][col] = order[i],
                   !.stack = SetNum(@, i),
                   !.filled = @ + 1,
                   !.pc = "call"]

solveInOrderStep(m, order) ==
    CASE m.pc = "call" -> solveBoardEnter(m, findEmptyCell(m.board))
      [] m.pc = "loop" ->
            solveInOrderTry(m, Top(m.stack)[1], Top(m.stack)[2],
                            NextValidIn(order, m.board, Top(m.stack)[1], Top(m.stack)[2],
                                        Top(m.stack)[3]),
                            order)
      [] m.pc = "failed" ->
            IF m.stack = <<>>
            THEN [m EXCEPT !.pc = "false"]
            ELSE solveBoardBacktrack(m, Top(m.stack)[1], Top(m.stack)[2],
                                     Top(m.stack)[3])
      [] OTHER -> m

RECURSIVE solveInOrderRun(_, _, _)
solveInOrderRun(k, m, order) ==
    IF m.pc \in {"true", "false"} THEN m
    ELSE IF k = 0 THEN solveInOrderStep(m, order)
    ELSE solveInOrderRun(k - 1, solveInOrderRun(k - 1, m, order), order)

solveInOrder(board, order) ==
    solveBoardResult(solveInOrderRun(FuelLog, [board |-> board, stack |-> <<>>,
                                               pc |-> "call", filled |-> 0], order))

\* variant: [...board], a new outer array over the same row objects
copyBoardShallow(h, ref) == [ref |-> ref, heap |-> h]

\* board.map(row => [...row]): nine new row objects
copyBoard(h, ref) ==
    LET base == Cardinality(DOMAIN h)
        newRef == [r \in Idx |-> base + 1 + r]
    IN  [ref  |-> newRef,
         heap |-> [id \in 1..(base + 9) |->
                     IF id <= base THEN h[id] ELSE h[ref[id - base - 1]]]]

\* One step of countSolutions.  m = [board, stack, pc, count, wrote]
\*   "call"  entering countSolutions (lines 61-73)
\*   "loop"  in the for loop of the top frame, about to test num (lines 76-77)
\*   "ret"   a call has returned to the frame below it (lines 80-84)
\*   "done"  the outermost call has returned
\* count is solutionCount; wrote is the set of row indices assigned to.

\* variant: the search stops at the first solution (solutionCount > 0)
countSolutionsEnterStopAtOne(m, emptyCell) ==
    IF emptyCell = None
    THEN [m EXCEPT !.count = @ + 1, !.pc = "ret"]
    ELSE IF m.count > 0
    THEN [m EXCEPT !.pc = "ret"]
    ELSE [m EXCEPT !.stack = Append(@, <<emptyCell[1], emptyCell[2], 1>>),
                   !.pc = "loop"]

countSolutionsEnter(m, emptyCell) ==
    IF emptyCell = None
    THEN [m EXCEPT !.count = @ + 1, !.pc = "ret"]
    ELSE IF m.count > 1
    THEN [m EXCEPT !.pc = "ret"]
    ELSE [m EXCEPT !.stack = Append(@, <<emptyCell[1], emptyCell[2], 1>>),
                   !.pc = "loop"]

countSolutionsTry(m, row, col, num) ==
    IF num > 9
    THEN [m EXCEPT !.stack = Pop(@), !.pc = "ret"]
    ELSE [m EXCEPT !.board[row][col] = num,
                   !.stack = SetNum(@, num),
                   !.wrote = @ \cup {row},
                   !.pc = "call"]

\* variant: no early exit after the recursive call (lines 82-84 missing)
countSolutionsBacktrackNoExit(m, row, col, num) ==
    [m EXCEPT !.board[row][col] = 0,
              !.wrote = @ \cup {row},
              !.stack = SetNum(@, num + 1),
              !.pc = "loop"]

countSolutionsBacktrack(m, row, col, num) ==
    IF m.count > 1
    THEN [m EXCEPT !.board[row][col] = 0,
                   !.wrote = @ \cup {row},
                   !.stack = Pop(@)]
    ELSE [m EXCEPT !.board[row][col] = 0,
                   !.wrote = @ \cup {row},
                   !.stack = SetNum(@, num + 1),
                   !.pc = "loop"]

countSolutionsStep(m) ==
    CASE m.pc = "call" -> countSolutionsEnter(m, findEmptyCell(m.board))
      [] m.pc = "loop" ->
            countSolutionsTry(m, Top(m.stack)[1], Top(m.stack)[2],
                              NextValid(m.board, Top(m.stack)[1], Top(m.stack)[2],
                                        Top(m.stack)[3]))
      [] m.pc = "ret" ->
            IF m.stack = <<>>
            THEN [m EXCEPT !.pc = "done"]
            ELSE countSolutionsBacktrack(m, Top(m.stack)[1], Top(m.stack)[2],
                                         Top(m.stack)[3])
      [] OTHER -> m

RECURSIVE countSolutionsRun(_, _)
countSolutionsRun(k, m) ==
    IF m.pc = "done" THEN m
    ELSE IF k = 0 THEN countSolutionsStep(m)
    ELSE countSolutionsRun(k - 1, countSolutionsRun(k - 1, m))

\* countSolutions(board) with solutionCount = 0: returns [board, count, wrote, done]
countSolutionsResult(m) ==
    [board |-> m.board, count |-> m.count, wrote |-> m.wrote,
     done  |-> (m.pc = "done")]

countSolutions(board) ==
    countSolutionsResult(
        countSolutionsRun(FuelLog, [board |-> board, stack |-> <<>>,
                                    pc |-> "call", count |-> 0, wrote |-> {}]))

\* variant: return solutionCount >= 1
UniqueResultAtLeastOne(counted) ==
    IF counted.done THEN counted.count >= 1 ELSE "out of fuel"

\* the value hasUniqueSolution returns (line 91)
UniqueResult(counted) ==
    IF counted.done THEN counted.count = 1 ELSE "out of fuel"

\* hasUniqueSolution on board values (the copy is private to the call)
hasUniqueSolution(board) == UniqueResult(countSolutions(board))

\* hasUniqueSolution through the heap: returns [ret, heap, wrote, copyRows]
hasUniqueSolutionReturn(cp, counted) ==
    [ret      |-> UniqueResult(counted),
     heap     |-> WriteBack(cp.heap, cp.ref, counted.board),
     wrote    |-> {cp.ref[r] : r \in counted.wrote},
     copyRows |-> {cp.ref[r] : r \in Idx}]

hasUniqueSolutionOn(cp) ==
    hasUniqueSolutionReturn(cp, countSolutions(Deref(cp.heap, cp.ref)))

hasUniqueSolutionCall(h, ref) == hasUniqueSolutionOn(copyBoard(h, ref))

----------------------------------------------------------------------------
(* Inputs: boards the calls are made on *)

FromRows(rows) == [r \in Idx |-> [c \in Idx |-> rows[r + 1][c + 1]]]

\* a valid, complete grid
SolvedGrid ==
    FromRows(<< <<1, 2, 3, 4, 5, 6, 7, 8, 9>>,
                <<4, 5, 6, 7, 8, 9, 1, 2, 3>>,
                <<7, 8, 9, 1, 2, 3, 4, 5, 6>>,
                <<2, 1, 4, 3, 6, 5, 8, 9, 7>>,
                <<3, 6, 5, 8, 9, 7, 2, 1, 4>>,
                <<8, 9, 7, 2, 1, 4, 3, 6, 5>>,
                <<5, 3, 1, 6, 4, 2, 9, 7, 8>>,
                <<6, 4, 2, 9, 7, 8, 5, 3, 1>>,
                <<9, 7, 8, 5, 3, 1, 6, 4, 2>> >>)

\* cells that an input may change, and the other digit it may put there.
\* (0,0),(0,1),(3,0),(3,1) hold 1 2 / 2 1 in SolvedGrid: swapping all four
\* gives a second valid grid.
WindowCells == << <<0, 0>>, <<0, 1>>, <<3, 0>>, <<3, 1>>, <<0, 2>>,
                  <<8, 8>>, <<4, 4>>, <<1, 0>> >>
WindowAlt   == << 2, 1, 1, 2, 1, 5, 3, 7 >>

WindowSize == 5

Window == 1..WindowSize

CellChoice(k, how) ==
    CASE how = "keep" -> SolvedGrid[WindowCells[k][1]][WindowCells[k][2]]
      [] how = "zero" -> 0
      [] how = "alt"  -> WindowAlt[k]

RECURSIVE ApplyChoices(_, _, _)
ApplyChoices(board, choice, k) ==
    IF k > WindowSize THEN board
    ELSE ApplyChoices(
            [board EXCEPT ![WindowCells[k][1]][WindowCells[k][2]] = CellChoice(k, choice[k])],
            choice, k + 1)

InputBoards ==
    {ApplyChoices(SolvedGrid, choice, 1) : choice \in [Window -> {"keep", "zero", "alt"}]}
    \cup {EmptyBoard}

\* boards with a few digits on an empty grid: cells that share only a row,
\* only a column, only a box or nothing with one another
SparseCells == << <<0, 0>>, <<0, 5>>, <<5, 0>>, <<1, 1>>, <<4, 4>>, <<2, 2>>, <<8, 5>> >>

SparseSize == 4

RECURSIVE PlaceSparse(_, _, _)
PlaceSparse(board, choice, k) ==
    IF k > SparseSize THEN board
    ELSE PlaceSparse(
            [board EXCEPT ![SparseCells[k][1]][SparseCells[k][2]] = choice[k]],
            choice, k + 1)

SparseBoards ==
    {PlaceSparse(EmptyBoard, choice, 1) : choice \in [1..SparseSize -> 0..2]}

\* the validator is called on the sparse boards and on the window boards
\* that differ from SolvedGrid in at most MaxChanged cells
MaxChanged == 2

ValidatorBoards ==
    SparseBoards \cup
    {b \in InputBoards :
        Cardinality({k \in Window :
            b[WindowCells[k][1]][WindowCells[k][2]]
                # SolvedGrid[WindowCells[k][1]][WindowCells[k][2]]}) <= MaxChanged
        /\ b # EmptyBoard}

----------------------------------------------------------------------------
(* The solver and validator calls *)

CallerInit(boards) ==
    /\ grid = [r \in Idx |-> r + 1]
    /\ \E b \in boards : heap = [id \in 1..9 |-> b[id - 1]]
    /\ given = EmptyBoard
    /\ op = "none"
    /\ args = <<0, 0, 0>>
    /\ ret = FALSE
    /\ filled = 0
    /\ wrote = {}
    /\ copyRows = {}
    /\ search = None

\* the generator has not run
GeneratorIdle ==
    /\ rng = 1
    /\ generated = <<>>
    /\ now = 1
    /\ dailyPuzzles = <<>>
    /\ request = <<>>
    /\ puzzle = <<>>
    /\ path = "none"
    /\ verdict = "none"
    /\ first = <<>>
    /\ repeat = FALSE

\* timerInterval: number | null; window.setInterval returns positive ids
null == 0

\* create(...): the initial state of the store (lines 51-63)
StoreCreated ==
    /\ gameBoard = EmptyBoard
    /\ originalBoard = EmptyBoard
    /\ solution = None
    /\ notes = [r \in Idx |-> [c \in Idx |-> <<>>]]
    /\ gameDifficulty = "medium"
    /\ selectedCell = None
    /\ isComplete = FALSE
    /\ hasWon = FALSE
    /\ elapsedSeconds = 0
    /\ timerInterval = null
    /\ isNoteMode = FALSE
    /\ live = {}
    /\ created = 0
    /\ storeOp = "create"
    /\ storeRet = None
    /\ other = None

\* no store action is called
StoreIdle == StoreCreated /\ solved = <<>>

\* no request has reached the server and nothing is stored
ServerIdle == leaderboards = <<>> /\ posts = <<>>

SolverInit == CallerInit(InputBoards) /\ GeneratorIdle /\ StoreIdle /\ ServerIdle

ValidatorInit == CallerInit(ValidatorBoards) /\ GeneratorIdle /\ StoreIdle /\ ServerIdle

CallSolveBoard ==
    \E res \in {solveBoard(Deref(heap, grid))} :
        /\ given' = Deref(heap, grid)
        /\ heap' = WriteBack(heap, grid, res.board)
        /\ ret' = res.ok
        /\ filled' = res.filled
        /\ op' = "solveBoard"
        /\ wrote' = {}
        /\ copyRows' = {}
        /\ UNCHANGED <<grid, args, search>>
        /\ UNCHANGED generatorVars
        /\ UNCHANGED storeVars /\ UNCHANGED serverVars

CallHasUniqueSolution ==
    \E res \in {hasUniqueSolutionCall(heap, grid)} :
        /\ given' = Deref(heap, grid)
        \* boardCopy is local to the call: only the caller's rows stay reachable
        /\ heap' = [id \in DOMAIN heap |-> res.heap[id]]
        /\ ret' = res.ret
        /\ wrote' = res.wrote
        /\ copyRows' = res.copyRows
        /\ op' = "hasUniqueSolution"
        /\ filled' = 0
        /\ UNCHANGED <<grid, args, search>>
        /\ UNCHANGED generatorVars
        /\ UNCHANGED storeVars /\ UNCHANGED serverVars

CallValidateSudokuBoard ==
    /\ op = "none"
    /\ given' = Deref(heap, grid)
    /\ ret' = validateSudokuBoard(Deref(heap, grid))
    /\ op' = "validateSudokuBoard"
    /\ UNCHANGED <<heap, grid, args, filled, wrote, copyRows, search>>
    /\ UNCHANGED generatorVars
    /\ UNCHANGED storeVars /\ UNCHANGED serverVars

CallIsBoardComplete ==
    /\ op = "none"
    /\ given' = Deref(heap, grid)
    /\ ret' = isBoardComplete(Deref(heap, grid))
    /\ op' = "isBoardComplete"
    /\ UNCHANGED <<heap, grid, args, filled, wrote, copyRows, search>>
    /\ UNCHANGED generatorVars
    /\ UNCHANGED storeVars /\ UNCHANGED serverVars

CallIsValidPlacement(row, col, value) ==
    /\ op = "none"
    /\ given' = Deref(heap, grid)
    /\ ret' = isValidPlacement(Deref(heap, grid), row, col, value)
    /\ args' = <<row, col, value>>
    /\ op' = "isValidPlacement"
    /\ UNCHANGED <<heap, grid, filled, wrote, copyRows, search>>
    /\ UNCHANGED generatorVars
    /\ UNCHANGED storeVars /\ UNCHANGED serverVars

SolverNext ==
    \/ CallSolveBoard
    \/ CallHasUniqueSolution

ValidatorNext ==
    \/ CallValidateSudokuBoard
    \/ CallIsBoardComplete
    \/ \E row \in Idx, col \in Idx, value \in 0..9 : CallIsValidPlacement(row, col, value)

SpecSolver == SolverInit /\ [][SolverNext]_vars

SpecValidator == ValidatorInit /\ [][ValidatorNext]_vars

----------------------------------------------------------------------------
(* Vocabulary of the properties *)

Cells == Idx \X Idx

SameUnit(p, q) ==
    \/ p[1] = q[1]
    \/ p[2] = q[2]
    \/ (p[1] \div 3 = q[1] \div 3 /\ p[2] \div 3 = q[2] \div 3)

\* the 20 other cells that share a row, a column or a box with a cell
PeersOf == [p \in Cells |-> {q \in Cells : q # p /\ SameUnit(p, q)}]

\* no row, column or box holds the same digit twice
NoRepeatedDigit(b) ==
    \A p \in Cells :
        b[p[1]][p[2]] # 0 => \A q \in PeersOf[p] : b[q[1]][q[2]] # b[p[1]][p[2]]

NoEmptyCell(b) == \A p \in Cells : b[p[1]][p[2]] # 0

EmptyCells(b) == {p \in Cells : b[p[1]][p[2]] = 0}

\* every row, column and box is a permutation of 1..9
UnitsArePermutations(b) ==
    /\ \A r \in Idx : {b[r][c] : c \in Idx} = Digits
    /\ \A c \in Idx : {b[r][c] : r \in Idx} = Digits
    /\ \A br \in 0..2 : \A bc \in 0..2 :
          {b[3 * br + i][3 * bc + j] : i \in 0..2, j \in 0..2} = Digits

\* b is g with some cells set to 0
CarvedFrom(b, g) == \A p \in Cells : b[p[1]][p[2]] \in {0, g[p[1]][p[2]]}

\* SolvedGrid with the 1 2 / 2 1 rectangle swapped: a second valid grid
SwappedGrid ==
    [SolvedGrid EXCEPT ![0][0] = 2, ![0][1] = 1, ![3][0] = 1, ![3][1] = 2]

KnownSolved == {SolvedGrid, SwappedGrid}

\* the assignments of digits to the empty cells that give a valid full grid
Completions(b) ==
    IF ~NoRepeatedDigit(b) THEN {}
    ELSE {f \in [EmptyCells(b) -> Digits] :
            \A e \in EmptyCells(b) : \A q \in PeersOf[e] :
                (IF q \in EmptyCells(b) THEN f[q] ELSE b[q[1]][q[2]]) # f[e]}

\* largest number of empty cells for which Completions is enumerated
MaxCounted == 6

Current == Deref(heap, grid)

----------------------------------------------------------------------------
(* Solver and validator properties *)

\* C3 as stated: whenever solveBoard returns true, for any grid with values in
\* 0..9, the grid it leaves has no empty cell and no repeated digit in a unit.
C3_AnyGridSolvedIsValid ==
    (op = "solveBoard" /\ ret = TRUE)
        => (NoEmptyCell(Current) /\ NoRepeatedDigit(Current))

\* C3 amended: when the grid passed in has no repeated digit in any unit and
\* solveBoard returns true, the grid it leaves has no empty cell and no
\* repeated digit in any row, column or box.
C3_ValidGridSolvedIsValid ==
    (op = "solveBoard" /\ ret = TRUE /\ NoRepeatedDigit(given))
        => (NoEmptyCell(Current) /\ NoRepeatedDigit(Current))

C3_Witness ==
    /\ op = "solveBoard" /\ ret = TRUE
    /\ NoRepeatedDigit(given)
    /\ filled >= 4
    /\ given # EmptyBoard

\* C4: on a grid obtained by setting cells of a valid complete grid to 0 (the
\* all-empty grid included) solveBoard returns true and leaves every row,
\* column and box a permutation of 1..9.
C4_CarvedGridIsSolved ==
    (op = "solveBoard" /\ \E g \in KnownSolved : CarvedFrom(given, g))
        => (ret = TRUE /\ UnitsArePermutations(Current))

C4_Witness ==
    /\ op = "solveBoard" /\ ret = TRUE
    /\ given = EmptyBoard
    /\ \A g \in KnownSolved : NoEmptyCell(g) /\ NoRepeatedDigit(g)

\* C5 as stated: for any grid, hasUniqueSolution returns true exactly when one
\* assignment to the empty cells completes it to a valid full grid.
C5_AnyGridUniqueIffOneCompletion ==
    (op = "hasUniqueSolution" /\ Cardinality(EmptyCells(given)) <= MaxCounted)
        => (ret = TRUE <=> Cardinality(Completions(given)) = 1)

\* C5 amended: for a grid whose given cells hold no repeated digit in any
\* unit, hasUniqueSolution returns true exactly when one assignment of digits
\* to the empty cells completes it to a valid full grid.
C5_ValidGridUniqueIffOneCompletion ==
    (/\ op = "hasUniqueSolution"
     /\ NoRepeatedDigit(given)
     /\ Cardinality(EmptyCells(given)) <= MaxCounted)
        => (ret = TRUE <=> Cardinality(Completions(given)) = 1)

C5_Witness ==
    /\ op = "hasUniqueSolution" /\ ret = FALSE
    /\ NoRepeatedDigit(given)
    /\ Cardinality(EmptyCells(given)) <= MaxCounted
    /\ Cardinality(Completions(given)) = 2

\* C6: a board that passes validateSudokuBoard has every cell's own value
\* accepted by isValidPlacement.
C6_ValidBoardCellsArePlaceable ==
    (op = "validateSudokuBoard" /\ ret = TRUE)
        => \A p \in Cells : isValidPlacement(given, p[1], p[2], given[p[1]][p[2]])

C6_Witness ==
    /\ op = "validateSudokuBoard" /\ ret = TRUE
    /\ Cardinality(Cells \ EmptyCells(given)) >= 2

\* C7: isValidPlacement is true for value 0, for a digit is true exactly when
\* no other cell of the row, column or box holds it, and does not depend on
\* what cell (row, col) holds.
C7_PlacementIsPeerCheck ==
    op = "isValidPlacement" =>
        LET row == args[1]
            col == args[2]
            value == args[3]
        IN  /\ value = 0 => ret = TRUE
            /\ value # 0 =>
                 (ret = TRUE <=> \A q \in PeersOf[<<row, col>>] : given[q[1]][q[2]] # value)
            /\ \A w \in 0..9 :
                 isValidPlacement([given EXCEPT ![row][col] = w], row, col, value) = ret

C7_Witness ==
    /\ op = "isValidPlacement" /\ ret = TRUE
    /\ args[3] # 0
    /\ given[args[1]][args[2]] = args[3]

\* C8: validateSudokuBoard is true exactly when no row, column or box holds a
\* non-zero value twice; empty cells never make it false.
C8_ValidateIsNoRepeat ==
    op = "validateSudokuBoard" => (ret = TRUE <=> NoRepeatedDigit(given))

C8_Witness ==
    /\ op = "validateSudokuBoard" /\ ret = TRUE
    /\ Cardinality(EmptyCells(given)) >= 2
    /\ given # EmptyBoard

\* C9: when solveBoard returns false the grid is the grid that was passed in.
C9_FailedSolveRestoresGrid ==
    (op = "solveBoard" /\ ret = FALSE) => Current = given

C9_Witness ==
    /\ op = "solveBoard" /\ ret = FALSE
    /\ filled >= 1
    /\ Current = given

\* C10: hasUniqueSolution leaves the caller's grid unchanged in every cell,
\* and every write of the counting search goes to a row of the copy, which
\* shares no row with the argument.
C10_UniqueCheckLeavesGrid ==
    op = "hasUniqueSolution" =>
        /\ Current = given
        /\ wrote \subseteq copyRows
        /\ copyRows \cap {grid[r] : r \in Idx} = {}

C10_Witness ==
    /\ op = "hasUniqueSolution"
    /\ wrote # {}
    /\ Current = given

\* every call returned a boolean (no search ran out of steps)
CallsReturn == ret \in BOOLEAN

----------------------------------------------------------------------------
(* Generator (stores/useSudoku.ts, lines 292-546) *)

Difficulties == {"easy", "medium", "hard"}

\* strings are sequences of characters
Letters == <<"a", "b", "c", "d", "e", "f", "g", "h", "i", "j", "k", "l", "m",
             "n", "o", "p", "q", "r", "s", "t", "u", "v", "w", "x", "y", "z">>
DigitChars == <<"0", "1", "2", "3", "4", "5", "6", "7", "8", "9">>

\* String.prototype.charCodeAt for the characters that occur in seeds
charCodeAt(ch) ==
    IF ch = "-" THEN 45
    ELSE IF ch = "," THEN 44
    ELSE IF \E i \in 1..10 : DigitChars[i] = ch
    THEN 47 + (CHOOSE i \in 1..10 : DigitChars[i] = ch)
    ELSE 96 + (CHOOSE i \in 1..26 : Letters[i] = ch)

DifficultyString ==
    [d \in Difficulties |->
        CASE d = "easy"   -> <<"e", "a", "s", "y">>
          [] d = "medium" -> <<"m", "e", "d", "i", "u", "m">>
          [] d = "hard"   -> <<"h", "a", "r", "d">>]

\* String(n) for a natural number
RECURSIVE NumberToString(_)
NumberToString(n) ==
    IF n < 10 THEN <<DigitChars[n + 1]>>
    ELSE NumberToString(n \div 10) \o <<DigitChars[(n % 10) + 1]>>

\* str.padStart(2, '0')
padStart2(str) == IF Len(str) < 2 THEN <<"0">> \o str ELSE str

\* the UTC days the clock runs through, in order
Days == << [year |-> 2024, month |-> 5, day |-> 16],
           [year |-> 2024, month |-> 5, day |-> 17],
           [year |-> 2024, month |-> 6, day |-> 15],
           [year |-> 2024, month |-> 6, day |-> 16] >>

MaxDay == 2

DayIdx == 1..MaxDay

getGTMDate(date) ==
    NumberToString(date.year) \o <<"-">> \o padStart2(NumberToString(date.month))
        \o <<"-">> \o padStart2(NumberToString(date.day))

RECURSIVE SumCodes(_, _)
SumCodes(seed, i) ==
    IF i > Len(seed) THEN 0 ELSE charCodeAt(seed[i]) + SumCodes(seed, i + 1)

\* seededRandom: the initial state s is the sum of the character codes; each
\* call sets s = Math.sin(s) * 10000 and returns s - Math.floor(s).  Math.sin
\* is not available here: the sequence of returned values is a fixed function
\* of the initial s, one of the functions below (selected by rng).  A value
\* is given in ten-thousandths, 0..9999.
Universes == {1, 2}

Multiplier == <<211, 30, 211>>

\* function 3 is function 1 except at one initial state (the seed
\* "2024-5-16-easy" of sudoku/generator.ts), where the values leave 1..9 in
\* order and put first twenty cells that carry a grid with one solution
OrderedState == 925

OrderedDraws ==
    <<9999, 9999, 9999, 9999, 9999, 9999, 9999, 9999, 9999, 9999,
      9999, 9572, 9566, 9559, 9403, 9394, 9231, 9219, 9207, 8871,
      8853, 8834, 8645, 8621, 8597, 8036, 8000, 7778, 7736, 7693,
      7648, 7600, 7552, 7500, 7447, 7392, 6889, 6819, 6745, 6667,
      6586, 6500, 6411, 5790, 5676, 5556, 5143, 5000, 4546, 4375,
      4194, 3334, 3104, 2858, 2593, 2308, 2000, 1667, 1305, 910, 0,
      4000, 5264, 7778, 5883, 4375, 4000, 6429, 2308, 1667, 0, 9999,
      6667, 9999, 7143, 6667, 9999, 0, 0, 0>>

Draw(u, s, k) ==
    IF u = 3 /\ s = OrderedState THEN OrderedDraws[k]
    ELSE IF k <= 8 THEN 4500 + ((Multiplier[u] * s * k + k * k * (s % 7)) % 5300)
    ELSE 9999

seededRandom(u, seed) == [k \in 1..80 |-> Draw(u, SumCodes(seed, 1), k)]

Swap(seq, a, b) == [seq EXCEPT ![a] = seq[b], ![b] = seq[a]]

\* seededShuffle: for (i = length - 1; i > 0; i--) { j = floor(random() * (i + 1)); swap }
\* (result is 1-based here: index i of the source is position i + 1)
seededShuffleStep(m, random) ==
    [result |-> Swap(m.result, m.i + 1,
                     ((random[Len(m.result) - m.i] * (m.i + 1)) \div 10000) + 1),
     i      |-> m.i - 1]

\* at most 2^k passes of the loop
RECURSIVE seededShuffleLoop(_, _, _)
seededShuffleLoop(k, m, random) ==
    IF ~(m.i > 0) THEN m
    ELSE IF k = 0 THEN seededShuffleStep(m, random)
    ELSE seededShuffleLoop(k - 1, seededShuffleLoop(k - 1, m, random), random)

seededShuffle(u, array, seed) ==
    seededShuffleLoop(7, [result |-> array, i |-> Len(array) - 1],
                      seededRandom(u, seed)).result

getDifficultyClues(difficulty) ==
    CASE difficulty = "easy"   -> 75
      [] difficulty = "medium" -> 35
      [] difficulty = "hard"   -> 20
      [] OTHER -> 35

\* variant: the cap of hard for every difficulty
maxAttemptsAlwaysHundred(difficulty) == 100

maxAttempts(difficulty) == IF difficulty = "hard" THEN 100 ELSE 20

getAllCellPositions == [k \in 1..81 |-> <<(k - 1) \div 9, (k - 1) % 9>>]

\* variant: the cell is copied from the same column of the row above
RECURSIVE FillFromRowAboveSameColumn(_, _)
FillFromRowAboveSameColumn(board, k) ==
    IF k > 6 THEN board
    ELSE LET i == 1 + ((k - 1) \div 3)
             j == (k - 1) % 3
         IN  FillFromRowAboveSameColumn([board EXCEPT ![i][j] = board[i - 1][j]], k + 1)

\* rows 1 and 2 copy three cells from the row above, in source order
RECURSIVE FillFromRowAbove(_, _)
FillFromRowAbove(board, k) ==
    IF k > 6 THEN board
    ELSE LET i == 1 + ((k - 1) \div 3)
             j == (k - 1) % 3
         IN  FillFromRowAbove([board EXCEPT ![i][j] = board[i - 1][(j + 3) % 9]], k + 1)

solvedOrNull(res) == IF res.ok = TRUE THEN res.board ELSE None

\* lines 518-528: the grid before the solver runs
seedBoard(firstRow) ==
    FillFromRowAbove([EmptyBoard EXCEPT ![0] = [c \in Idx |-> firstRow[c + 1]]], 1)

\* lines 529-530
generateSolvedBoardFrom(firstRow) == solvedOrNull(solveBoard(seedBoard(firstRow)))

generateSolvedBoard(u, seed) ==
    generateSolvedBoardFrom(seededShuffle(u, <<1, 2, 3, 4, 5, 6, 7, 8, 9>>, seed))

\* `${r},${c}` and back (split(",").map(Number))
cellKey(cell) == <<DigitChars[cell[1] + 1], ",", DigitChars[cell[2] + 1]>>

digitValue(ch) == (CHOOSE i \in 1..10 : DigitChars[i] = ch) - 1

keyCell(key) == <<digitValue(key[1]), digitValue(key[3])>>

slice(seq, n) == SubSeq(seq, 1, IF n < Len(seq) THEN n ELSE Len(seq))

\* Array.from(new Set(keys)): the keys in order of first occurrence
uniqueKeysStep(m, keys) ==
    IF keys[m.i] \in m.seen THEN [m EXCEPT !.i = m.i + 1]
    ELSE [i |-> m.i + 1, seen |-> m.seen \cup {keys[m.i]}, out |-> Append(m.out, keys[m.i])]

RECURSIVE uniqueKeysLoop(_, _, _)
uniqueKeysLoop(k, m, keys) ==
    IF m.i > Len(keys) THEN m
    ELSE IF k = 0 THEN uniqueKeysStep(m, keys)
    ELSE uniqueKeysLoop(k - 1, uniqueKeysLoop(k - 1, m, keys), keys)

uniqueKeys(keys) == uniqueKeysLoop(8, [i |-> 1, seen |-> {}, out |-> <<>>], keys).out

\* new Set(cells.map(([r, c]) => `${r},${c}`))
keySet(cells) == {cellKey(cells[k]) : k \in 1..Len(cells)}

\* variant: the kept value is read at [c][r]
carveWithTransposed(solvedBoard, keepSet) ==
    [r \in Idx |-> [c \in Idx |->
        IF cellKey(<<r, c>>) \in keepSet THEN solvedBoard[c][r] ELSE 0]]

\* a copy of solvedBoard with every cell whose key is not in keepSet set to 0
carveWith(solvedBoard, keepSet) ==
    [r \in Idx |-> [c \in Idx |->
        IF cellKey(<<r, c>>) \in keepSet THEN solvedBoard[r][c] ELSE 0]]

carve(solvedBoard, cellsToKeep) == carveWith(solvedBoard, keySet(cellsToKeep))

\* the candidate list of one attempt (lines 402-411)
keysOf(cells) == [i \in 1..Len(cells) |-> cellKey(cells[i])]

cellsOf(keys) == [i \in 1..Len(keys) |-> keyCell(keys[i])]

uniqueCellsOf(shuffledCells, alternateShuffledCells, minRequiredClues) ==
    cellsOf(uniqueKeys(keysOf(slice(shuffledCells, minRequiredClues * 2)
                              \o slice(alternateShuffledCells, minRequiredClues * 2))))

\* variant: a success records the alternate ordering
attemptOutcomeKeepingAlternate(u, seed, additionalSeed, L, attempts, uniqueCells, isUnique) ==
    IF isUnique = TRUE
    THEN [L EXCEPT !.attempts = attempts,
                   !.uniqueSolutionFound = TRUE,
                   !.finalCellsToKeep = L.alternateShuffledCells]
    ELSE [L EXCEPT !.attempts = attempts,
                   !.shuffledCells =
                       seededShuffle(u, L.shuffledCells,
                                     seed \o <<"-">> \o NumberToString(attempts)),
                   !.lastShuffled =
                       seededShuffle(u, L.shuffledCells,
                                     seed \o <<"-">> \o NumberToString(attempts)),
                   !.alternateShuffledCells =
                       seededShuffle(u, L.alternateShuffledCells,
                                     additionalSeed \o <<"-">> \o NumberToString(attempts))]

\* One pass of the while loop (lines 400-440).  L holds the loop's variables.
attemptOutcome(u, seed, additionalSeed, L, attempts, uniqueCells, isUnique) ==
    IF isUnique = TRUE
    THEN [L EXCEPT !.attempts = attempts,
                   !.uniqueSolutionFound = TRUE,
                   !.finalCellsToKeep = uniqueCells]
    ELSE [L EXCEPT !.attempts = attempts,
                   !.shuffledCells =
                       seededShuffle(u, L.shuffledCells,
                                     seed \o <<"-">> \o NumberToString(attempts)),
                   !.lastShuffled =
                       seededShuffle(u, L.shuffledCells,
                                     seed \o <<"-">> \o NumberToString(attempts)),
                   !.alternateShuffledCells =
                       seededShuffle(u, L.alternateShuffledCells,
                                     additionalSeed \o <<"-">> \o NumberToString(attempts))]

\* testPuzzle is not kept by the source after the loop: the field records the
\* grid that passed hasUniqueSolution (lines 415-423)
recordTest(L, testPuzzle) ==
    IF L.uniqueSolutionFound THEN [L EXCEPT !.testPuzzle = testPuzzle] ELSE L

attemptOn(u, seed, additionalSeed, L, uniqueCells, testPuzzle) ==
    recordTest(attemptOutcome(u, seed, additionalSeed, L, L.attempts + 1, uniqueCells,
                              hasUniqueSolution(testPuzzle)),
               testPuzzle)

attemptWith(u, seed, additionalSeed, L, minRequiredClues, uniqueCells) ==
    attemptOn(u, seed, additionalSeed, L, uniqueCells,
              carve(L.solvedBoard, slice(uniqueCells, minRequiredClues)))

attempt(u, seed, additionalSeed, L, minRequiredClues) ==
    attemptWith(u, seed, additionalSeed, L, minRequiredClues,
                uniqueCellsOf(L.shuffledCells, L.alternateShuffledCells, minRequiredClues))

\* while (!uniqueSolutionFound && attempts < maxAttempts): at most 2^k more passes
RECURSIVE searchLoop(_, _, _, _, _, _, _)
searchLoop(k, u, seed, additionalSeed, L, minRequiredClues, max) ==
    IF L.uniqueSolutionFound \/ ~(L.attempts < max) THEN L
    ELSE IF k = 0 THEN attempt(u, seed, additionalSeed, L, minRequiredClues)
    ELSE searchLoop(k - 1, u, seed, additionalSeed,
                    searchLoop(k - 1, u, seed, additionalSeed, L, minRequiredClues, max),
                    minRequiredClues, max)

\* lines 442-466: the fallback, the pool and the cache entry
poolOf(cellsPool, shuffledCells, targetClues) ==
    IF Len(cellsPool) < targetClues
    THEN cellsPool \o SelectSeq(shuffledCells,
             LAMBDA cell : ~\E k \in 1..Len(cellsPool) : cellsPool[k] = cell)
    ELSE cellsPool

\* variant: lines 442-447 and the top-up are missing
entryOfWithoutFallback(today, difficulty, L) ==
    [date        |-> today,
     solvedBoard |-> L.solvedBoard,
     cellsToKeep |-> L.finalCellsToKeep,
     found       |-> L.uniqueSolutionFound,
     attempts    |-> L.attempts,
     testPuzzle  |-> L.testPuzzle,
     lastShuffled |-> L.lastShuffled]

entryOf(today, difficulty, L) ==
    [date        |-> today,
     solvedBoard |-> L.solvedBoard,
     cellsToKeep |-> poolOf(IF L.uniqueSolutionFound THEN L.finalCellsToKeep
                            ELSE L.lastShuffled,
                            L.shuffledCells, getDifficultyClues(difficulty)),
     found       |-> L.uniqueSolutionFound,
     attempts    |-> L.attempts,
     testPuzzle  |-> L.testPuzzle,
     lastShuffled |-> L.lastShuffled]

searchFrom(u, today, difficulty, seed, solvedBoard, shuffledCells, alternateShuffledCells) ==
    entryOf(today, difficulty,
        searchLoop(7, u, seed, seed \o <<"-", "u", "n", "i", "q", "u", "e">>,
                   [solvedBoard            |-> solvedBoard,
                    shuffledCells          |-> shuffledCells,
                    alternateShuffledCells |-> alternateShuffledCells,
                    lastShuffled           |-> shuffledCells,
                    attempts               |-> 0,
                    uniqueSolutionFound    |-> FALSE,
                    finalCellsToKeep       |-> <<>>,
                    testPuzzle             |-> None],
                   getDifficultyClues(difficulty), maxAttempts(difficulty)))

regenerateWith(u, today, difficulty, seed, solvedBoard) ==
    IF solvedBoard = None THEN None    \* throw new Error("Failed to generate solved board ...")
    ELSE searchFrom(u, today, difficulty, seed, solvedBoard,
                    seededShuffle(u, getAllCellPositions, seed),
                    seededShuffle(u, getAllCellPositions,
                                  seed \o <<"-", "u", "n", "i", "q", "u", "e">>))

\* lines 373-466: the entry that a cache miss computes; None when it throws.
\* found, attempts, testPuzzle and lastShuffled are not stored by the source:
\* they record what the search did (the console messages, the loop's locals).
regenerate(u, date, difficulty) ==
    regenerateWith(u, getGTMDate(date), difficulty,
                   getGTMDate(date) \o <<"-">> \o DifficultyString[difficulty],
                   generateSolvedBoard(u, getGTMDate(date) \o <<"-">> \o DifficultyString[difficulty]))

\* line 372 without the date comparison
cacheMissIgnoringDate(cache, difficulty, today) == cache[difficulty] = None

\* line 372 with === in place of !==
cacheMissOnEqualDate(cache, difficulty, today) ==
    cache[difficulty] = None \/ cache[difficulty].date = today

\* line 372: !dailyPuzzles[difficulty] || dailyPuzzles[difficulty]?.date !== today
cacheMiss(cache, difficulty, today) ==
    cache[difficulty] = None \/ cache[difficulty].date # today

\* line 470 without the slice
cluesKeptAll(cellsToKeep, clues) == cellsToKeep

\* line 470: cellsToKeep.slice(0, clues)
cluesKept(cellsToKeep, clues) == slice(cellsToKeep, clues)

\* lines 468-477: the grid carved from a cache entry
finalPuzzle(entry, difficulty) ==
    carve(entry.solvedBoard, cluesKept(entry.cellsToKeep, getDifficultyClues(difficulty)))

\* lines 480-501: both tests run on copies; an unsolvable grid makes the
\* function call itself again
finalCheckOf(isUnique, isSolvable) ==
    IF isUnique = TRUE THEN "unique"
    ELSE IF isSolvable = TRUE THEN "multiple"
    ELSE "unsolvable"

finalCheck(grid9) == finalCheckOf(hasUniqueSolution(grid9), solveBoard(grid9).ok)

\* what dailyPuzzles[difficulty] is assigned (lines 462-466)
stored(entry) ==
    [date |-> entry.date, solvedBoard |-> entry.solvedBoard, cellsToKeep |-> entry.cellsToKeep]

checkedWith(entry, grid9) == [entry |-> entry, puzzle |-> grid9, verdict |-> finalCheck(grid9)]

\* regeneration and final check for one (day, difficulty), computed once
generate(u, date, difficulty, entry) ==
    IF entry = None THEN [entry |-> None, puzzle |-> None, verdict |-> "none"]
    ELSE checkedWith(entry, finalPuzzle(entry, difficulty))

Keys == DayIdx \X Difficulties

\* the final check of a grid: looked up when the grid is one already
\* checked, computed otherwise
verdictOf(table, grid9) ==
    IF \E k \in DOMAIN table : table[k].puzzle = grid9
    THEN table[CHOOSE k \in DOMAIN table : table[k].puzzle = grid9].verdict
    ELSE finalCheck(grid9)

GeneratorInit ==
    /\ CallerInit({EmptyBoard})
    /\ StoreIdle
    /\ ServerIdle
    /\ \E u \in Universes :
        /\ rng = u
        /\ generated = [k \in Keys |->
                            generate(u, Days[k[1]], k[2], regenerate(u, Days[k[1]], k[2]))]
    /\ now = 1
    /\ dailyPuzzles = [d \in Difficulties |-> None]
    /\ request = None
    /\ puzzle = None
    /\ path = "none"
    /\ verdict = "none"
    /\ first = [k \in Keys |-> None]
    /\ repeat = FALSE

\* the call returns grid9 (or does not return, when it throws or recurses
\* without end)
Returns(difficulty, cache, how, grid9, result) ==
    /\ dailyPuzzles' = cache
    /\ request' = [day |-> now, difficulty |-> difficulty]
    /\ path' = how
    /\ verdict' = result
    /\ puzzle' = IF result \in {"unique", "multiple"} THEN grid9 ELSE None
    /\ repeat' = (first[<<now, difficulty>>] # None)
    /\ first' = IF first[<<now, difficulty>>] = None /\ result \in {"unique", "multiple"}
                THEN [first EXCEPT ![<<now, difficulty>>] = grid9]
                ELSE first
    /\ UNCHANGED <<rng, generated, now>>

\* the call's effect on the generator's state
generateSudokuPuzzle(difficulty) ==
    \E today \in {getGTMDate(Days[now])} :
    \E miss \in {cacheMiss(dailyPuzzles, difficulty, today)} :
    \E fresh \in {IF miss THEN generated[<<now, difficulty>>].entry ELSE None} :
        IF miss /\ fresh = None
        THEN Returns(difficulty, dailyPuzzles, "threw", None, "none")
        ELSE \E cache \in {IF miss THEN [dailyPuzzles EXCEPT ![difficulty] = stored(fresh)]
                                   ELSE dailyPuzzles} :
             \E grid9 \in {finalPuzzle(cache[difficulty], difficulty)} :
             \E result \in {verdictOf(generated, grid9)} :
                Returns(difficulty, cache,
                        IF ~miss THEN "hit" ELSE IF fresh.found THEN "unique" ELSE "fallback",
                        grid9, result)

GenerateSudokuPuzzle(difficulty) ==
    /\ generateSudokuPuzzle(difficulty)
    /\ UNCHANGED solverVars
    /\ UNCHANGED storeVars /\ UNCHANGED serverVars

\* midnight UTC passes
AdvanceDay ==
    /\ now < MaxDay
    /\ now' = now + 1
    /\ UNCHANGED <<rng, generated, dailyPuzzles, request, puzzle, path, verdict, first, repeat>>
    /\ UNCHANGED solverVars
    /\ UNCHANGED storeVars /\ UNCHANGED serverVars

\* the page is reloaded: the module is evaluated again (line 296)
Restart ==
    /\ \E d \in Difficulties : dailyPuzzles[d] # None
    /\ dailyPuzzles' = [d \in Difficulties |-> None]
    /\ UNCHANGED <<rng, generated, now, request, puzzle, path, verdict, first, repeat>>
    /\ UNCHANGED solverVars
    /\ UNCHANGED storeVars /\ UNCHANGED serverVars

GeneratorNext ==
    \/ \E difficulty \in Difficulties : GenerateSudokuPuzzle(difficulty)
    \/ AdvanceDay
    \/ Restart

SpecGenerator == GeneratorInit /\ [][GeneratorNext]_vars

clueCount(grid9) == Cardinality({cell \in Idx \X Idx : grid9[cell[1]][cell[2]] # 0})

Returned == path \in {"hit", "unique", "fallback"} /\ puzzle # None

\* C1: for a fixed UTC day and a fixed difficulty every call of
\* generateSudokuPuzzle returns the same grid, the one the first call for
\* that day and difficulty returned: on a regeneration (empty cache after a
\* restart, stale date) as on a cache hit, whatever was requested in between.
C1_SameGridPerDayAndDifficulty ==
    Returned => puzzle = first[<<request.day, request.difficulty>>]

\* a call that regenerated the entry of a day and difficulty served before
C1_Witness ==
    /\ Returned
    /\ repeat
    /\ path \in {"unique", "fallback"}
    /\ request.day = 2

\* C2: the grid generateSudokuPuzzle returns has exactly
\* getDifficultyClues(difficulty) non-zero cells, whether the candidate list
\* passed the uniqueness test, the fallback list was used, or the entry came
\* from the cache.
C2_ClueCountIsTarget ==
    Returned => clueCount(puzzle) = getDifficultyClues(request.difficulty)

\* a cache hit on an entry that the fallback stored
C2_Witness ==
    /\ Returned
    /\ path = "hit"
    /\ ~generated[<<request.day, request.difficulty>>].entry.found

----------------------------------------------------------------------------
(* Solver and uniqueness test together *)

\* orders in which a solver may try the digits: ascending as solveBoard,
\* descending, and two mixed ones
CandidateOrders ==
    { <<1, 2, 3, 4, 5, 6, 7, 8, 9>>,
      <<9, 8, 7, 6, 5, 4, 3, 2, 1>>,
      <<2, 1, 4, 3, 6, 5, 8, 7, 9>>,
      <<5, 9, 1, 7, 3, 8, 2, 6, 4>> }

AllOrdersAgree(board, reference) ==
    \A order \in CandidateOrders :
        /\ solveInOrder(board, order).ok = TRUE
        /\ solveInOrder(board, order).board = reference.board
        /\ reference.ok = TRUE

\* C11: when hasUniqueSolution returns true on a grid, solvers that try the
\* digits in different orders all return true on copies of the grid and all
\* leave the filled grid that solveBoard leaves.
C11_OrdersAgreeWhenUnique ==
    (op = "hasUniqueSolution" /\ ret = TRUE) => AllOrdersAgree(given, solveBoard(given))

\* a grid with at least three empty cells that passed the uniqueness test and
\* that the descending solver fills as solveBoard does
C11_Witness ==
    /\ op = "hasUniqueSolution" /\ ret = TRUE
    /\ Cardinality(EmptyCells(given)) >= 3
    /\ solveInOrder(given, <<9, 8, 7, 6, 5, 4, 3, 2, 1>>).ok = TRUE
    /\ solveInOrder(given, <<9, 8, 7, 6, 5, 4, 3, 2, 1>>).board = solveBoard(given).board

----------------------------------------------------------------------------
(* Generator: the returned grid and the cache *)

\* the cache entry of the difficulty last requested
Entry == dailyPuzzles[request.difficulty]

IsGrid(b) == b \in [Idx -> [Idx -> 0..9]]

\* C12: the grid generateSudokuPuzzle returns is 9x9 over 0..9, each non-zero
\* cell equals the same cell of the cached solved grid of that difficulty,
\* and that solved grid is complete and passes validateSudokuBoard.
C12_PuzzleIsCarvedFromSolvedGrid ==
    (Returned /\ Entry # None) =>
        /\ IsGrid(puzzle)
        /\ CarvedFrom(puzzle, Entry.solvedBoard)
        /\ isBoardComplete(Entry.solvedBoard)
        /\ validateSudokuBoard(Entry.solvedBoard)

\* a returned medium grid: 35 cells of the solved grid, 46 empty cells
C12_Witness ==
    /\ Returned /\ Entry # None
    /\ request.difficulty = "medium"
    /\ Cardinality(EmptyCells(puzzle)) = 46
    /\ CarvedFrom(puzzle, Entry.solvedBoard)

\* a step in which generateSudokuPuzzle is called and returns
CallStep ==
    /\ now' = now
    /\ request' # None
    /\ path' \in {"hit", "unique", "fallback"}
    /\ dailyPuzzles'[request'.difficulty] # None

Stale(cache, difficulty, today) == cache[difficulty] = None \/ cache[difficulty].date # today

RegeneratesExactlyWhenStale(difficulty, today) ==
    /\ Stale(dailyPuzzles, difficulty, today) =>
          /\ path' \in {"unique", "fallback"}
          /\ dailyPuzzles'[difficulty] = stored(generated[<<now, difficulty>>].entry)
    /\ ~Stale(dailyPuzzles, difficulty, today) =>
          /\ path' = "hit"
          /\ dailyPuzzles'[difficulty] = dailyPuzzles[difficulty]
    /\ \A d \in Difficulties \ {difficulty} : dailyPuzzles'[d] = dailyPuzzles[d]
    /\ dailyPuzzles'[difficulty].date = today
    /\ generated[<<now, difficulty>>].entry.date = today
    /\ CarvedFrom(puzzle', dailyPuzzles'[difficulty].solvedBoard)

\* C14: a call of generateSudokuPuzzle(d) regenerates the entry of d exactly
\* when there is no entry or the entry's date is not the current UTC day key,
\* and reuses the entry unchanged otherwise; when it returns, the entry of d
\* carries the current day key and the returned grid is carved from that
\* entry's solved grid, so after a rollover no grid of an earlier day's entry
\* is returned.
C14_RegeneratesExactlyWhenStale ==
    [][CallStep => RegeneratesExactlyWhenStale(request'.difficulty, getGTMDate(Days[now]))]_vars

\* a regeneration on the second day of a difficulty served on the first day
C14_Witness ==
    /\ Returned /\ Entry # None
    /\ request.day = 2
    /\ first[<<1, request.difficulty>>] # None
    /\ path \in {"unique", "fallback"}
    /\ Entry.date = getGTMDate(Days[2])
    /\ Entry.date # getGTMDate(Days[1])

\* what the search of the day and difficulty last requested did
Search == generated[<<request.day, request.difficulty>>].entry

Clues(b) == Cells \ EmptyCells(b)

\* C18: when an attempt of the uniqueness search found a test puzzle that
\* passes hasUniqueSolution, the grid returned by that call and by every
\* later call for the same day and difficulty has exactly the clue positions
\* of that test puzzle, and the final check finds it unique.
C18_SuccessfulTestPuzzleIsReturned ==
    (Returned /\ Search.found) =>
        /\ Clues(puzzle) = Clues(Search.testPuzzle)
        /\ puzzle = Search.testPuzzle
        /\ verdict = "unique"

\* a later call of a day and difficulty whose search succeeded, served from
\* the cache
C18_Witness ==
    /\ Returned
    /\ Search.found
    /\ Search.attempts >= 1
    /\ repeat
    /\ path = "hit"
    /\ Clues(puzzle) = Clues(Search.testPuzzle)

\* seq lists every cell of the grid exactly once
IsPermutationOfCells(seq) ==
    /\ Len(seq) = 81
    /\ {seq[i] : i \in 1..Len(seq)} = Cells

\* a step in which generateSudokuPuzzle is called and ends, by a return or by
\* a throw
CallEnds ==
    /\ now' = now
    /\ request' # None
    /\ path' = "threw" \/ dailyPuzzles'[request'.difficulty] # None

\* the call has not thrown; if its search failed, it has stored and returned
\* the fallback: the final check found the grid solvable, and the grid is
\* carved from the cached solved grid
FallbackServed ==
    /\ path # "threw"
    /\ Search # None
    /\ (~Search.found) =>
          /\ Returned
          /\ path \in {"fallback", "hit"}
          /\ Entry # None
          /\ Entry.cellsToKeep = Search.lastShuffled
          /\ IsPermutationOfCells(Entry.cellsToKeep)
          /\ verdict \in {"unique", "multiple"}
          /\ CarvedFrom(puzzle, Entry.solvedBoard)
          /\ clueCount(puzzle) = getDifficultyClues(request.difficulty)

\* C19: when no attempt of the uniqueness search succeeds, the call does not
\* throw: the entry it caches holds the primary ordering as last reshuffled,
\* a permutation of all 81 positions, the call that searched reports the
\* fallback, and the grid returned is solvable and has the target number of
\* clues.
C19_FallbackReturnsSolvableGrid ==
    [][CallEnds => FallbackServed']_vars

\* a hard grid returned by the call whose hundred attempts all failed
C19_Witness ==
    /\ Returned
    /\ request.difficulty = "hard"
    /\ ~Search.found
    /\ Search.attempts = 100
    /\ path = "fallback"
    /\ clueCount(puzzle) = 20

\* a call has ended, by a return, a throw or the recursive call of line 501
Ended == request # None /\ path # "none"

\* C20: every call of generateSudokuPuzzle terminates: the uniqueness search
\* made at most 20 passes for easy and medium and at most 100 for hard, it
\* stopped at the pass that succeeded or at the cap, and the final check
\* never found the grid unsolvable, so the recursive call was not made.
C20_SearchIsBoundedAndNoRecursion ==
    Ended =>
        /\ path # "threw"
        /\ Search.attempts >= 1
        /\ Search.attempts <= (IF request.difficulty = "hard" THEN 100 ELSE 20)
        /\ (~Search.found) =>
              Search.attempts = (IF request.difficulty = "hard" THEN 100 ELSE 20)
        /\ Search.found => Search.testPuzzle # None
        /\ verdict \in {"unique", "multiple"}
        /\ Returned

\* a medium call whose search stopped at the cap of twenty passes
C20_Witness ==
    /\ Ended
    /\ request.difficulty = "medium"
    /\ ~Search.found
    /\ Search.attempts = 20
    /\ verdict = "multiple"

\* C15: every grid generateSudokuPuzzle returns has exactly one solution, as
\* the difficulty tooltip tells the player: the final check of the returned
\* grid, hasUniqueSolution (which counts the completions up to two), says
\* "unique".
C15_ReturnedPuzzleHasOneSolution ==
    Returned => verdict = "unique"

----------------------------------------------------------------------------
(* The game store (stores/useSudoku.ts, lines 51-290) *)

emptyNotes == [r \in Idx |-> [c \in Idx |-> <<>>]]

\* variant: the early return for clue cells is missing
isClueCellUnchecked(original, row, col) == FALSE

\* originalBoard[row][col] !== 0 (lines 80, 186, 215)
isClueCell(original, row, col) == original[row][col] # 0

\* variant: hasWon = complete
hasWonOfCompleteOnly(complete, valid) == complete

\* const hasWon = complete && valid (lines 104, 156, 253)
hasWonOf(complete, valid) == complete /\ valid

\* Array.prototype.indexOf: the 1-based position of the first occurrence, or 0
indexOf(seq, value) ==
    IF \E i \in 1..Len(seq) : seq[i] = value
    THEN CHOOSE i \in 1..Len(seq) : seq[i] = value /\ \A j \in 1..(i - 1) : seq[j] # value
    ELSE 0

\* variant: the value is pushed whether present or not
toggledAlwaysPush(cellNotes, value) == Append(cellNotes, value)

\* lines 189-196: push the value, or splice it out
toggled(cellNotes, value) ==
    IF indexOf(cellNotes, value) = 0 THEN Append(cellNotes, value)
    ELSE SubSeq(cellNotes, 1, indexOf(cellNotes, value) - 1)
         \o SubSeq(cellNotes, indexOf(cellNotes, value) + 1, Len(cellNotes))

\* the descending order of the player's other plan
Descending == <<9, 8, 7, 6, 5, 4, 3, 2, 1>>

plansFor(grid9) ==
    [puzzle     |-> grid9,
     ascending  |-> solveBoard(grid9).board,
     descending |-> solveInOrder(grid9, Descending).board]

\* the plans for a grid: looked up when the grid is a generated one,
\* computed otherwise
plansOf(table, grid9) ==
    IF \E k \in DOMAIN table : table[k].puzzle = grid9
    THEN table[CHOOSE k \in DOMAIN table : table[k].puzzle = grid9]
    ELSE plansFor(grid9)

\* the games of the first day that the player can ask for
StoreKeys == {1} \X {"easy", "medium"}

StoreInit ==
    /\ CallerInit({EmptyBoard})
    /\ StoreCreated
    /\ ServerIdle
    /\ \E u \in Universes :
        /\ rng = u
        /\ generated = [k \in StoreKeys |->
                            generate(u, Days[k[1]], k[2], regenerate(u, Days[k[1]], k[2]))]
    /\ solved = [k \in DOMAIN generated |-> plansFor(generated[k].puzzle)]
    /\ now = 1
    /\ dailyPuzzles = [d \in Difficulties |-> None]
    /\ request = None
    /\ puzzle = None
    /\ path = "none"
    /\ verdict = "none"
    /\ first = [k \in StoreKeys |-> None]
    /\ repeat = FALSE

StoreFrame ==
    /\ UNCHANGED solverVars
    /\ UNCHANGED generatorVars
    /\ UNCHANGED <<solved>>
    /\ UNCHANGED serverVars

\* lines 76-112
SetCellValue(row, col, value) ==
    /\ storeOp' = "setCellValue"
    /\ storeRet' = None
    /\ IF isClueCell(originalBoard, row, col)
       THEN UNCHANGED <<gameBoard, notes, isComplete, hasWon>>
       ELSE \E newBoard \in {[gameBoard EXCEPT ![row][col] = value]} :
            /\ gameBoard' = newBoard
            /\ notes' = IF value # 0 THEN [notes EXCEPT ![row][col] = <<>>] ELSE notes
            /\ isComplete' = isBoardComplete(newBoard)
            /\ hasWon' = hasWonOf(isBoardComplete(newBoard), validateSudokuBoard(newBoard))
    /\ UNCHANGED <<originalBoard, solution, gameDifficulty, selectedCell,
                   elapsedSeconds, timerInterval, isNoteMode, live, created, other>>
    /\ StoreFrame

\* an omitted optional argument
undefined == "undefined"

\* lines 115-148; stopTimer (277-284) and resetTimer (287-289) are part of it
GenerateNewGame(difficulty) ==
    \E diff \in {IF difficulty = undefined THEN gameDifficulty ELSE difficulty} :
        /\ generateSudokuPuzzle(diff)
        /\ IF verdict' \in {"unique", "multiple"}
           THEN \E plans \in {plansOf(solved, puzzle')} :
                /\ gameBoard' = puzzle'
                /\ originalBoard' = puzzle'
                /\ solution' = plans.ascending
                /\ other' = plans.descending
                /\ notes' = emptyNotes
                /\ timerInterval' = null
                /\ live' = live \ {timerInterval}
                /\ UNCHANGED <<isNoteMode, created>>
                /\ elapsedSeconds' = 0
                /\ gameDifficulty' = diff
                /\ selectedCell' = None
                /\ isComplete' = FALSE
                /\ hasWon' = FALSE
                /\ storeOp' = "generateNewGame"
                /\ storeRet' = None
           ELSE UNCHANGED <<gameBoard, originalBoard, solution, other, notes, timerInterval,
                            isNoteMode, live, created,
                            elapsedSeconds, gameDifficulty, selectedCell, isComplete,
                            hasWon, storeOp, storeRet>>
        /\ UNCHANGED solverVars
        /\ UNCHANGED <<solved>>
        /\ UNCHANGED serverVars

\* lines 151-161
CheckSolution ==
    /\ isComplete' = isBoardComplete(gameBoard)
    /\ hasWon' = hasWonOf(isBoardComplete(gameBoard), validateSudokuBoard(gameBoard))
    /\ storeRet' = hasWonOf(isBoardComplete(gameBoard), validateSudokuBoard(gameBoard))
    /\ storeOp' = "checkSolution"
    /\ UNCHANGED <<gameBoard, originalBoard, solution, notes, gameDifficulty, selectedCell,
                   elapsedSeconds, timerInterval, isNoteMode, live, created, other>>
    /\ StoreFrame

\* variant: the notes are kept
ResetGameKeepingNotes ==
    /\ gameBoard' = originalBoard
    /\ selectedCell' = None
    /\ isComplete' = FALSE
    /\ hasWon' = FALSE
    /\ storeOp' = "resetGame"
    /\ storeRet' = None
    /\ UNCHANGED <<notes, originalBoard, solution, gameDifficulty, elapsedSeconds,
                   timerInterval, isNoteMode, live, created, other>>
    /\ StoreFrame

\* lines 164-174
ResetGame ==
    /\ gameBoard' = originalBoard
    /\ notes' = emptyNotes
    /\ selectedCell' = None
    /\ isComplete' = FALSE
    /\ hasWon' = FALSE
    /\ storeOp' = "resetGame"
    /\ storeRet' = None
    /\ UNCHANGED <<originalBoard, solution, gameDifficulty, elapsedSeconds, timerInterval, isNoteMode, live, created, other>>
    /\ StoreFrame

\* lines 182-208
ToggleNote(row, col, value) ==
    /\ storeOp' = "toggleNote"
    /\ storeRet' = None
    /\ notes' = IF isClueCell(originalBoard, row, col) \/ gameBoard[row][col] # 0
                THEN notes
                ELSE [notes EXCEPT ![row][col] = toggled(notes[row][col], value)]
    /\ UNCHANGED <<gameBoard, originalBoard, solution, gameDifficulty, selectedCell,
                   isComplete, hasWon, elapsedSeconds, timerInterval, isNoteMode, live, created, other>>
    /\ StoreFrame

\* lines 211-240
ClearCell(row, col) ==
    /\ storeOp' = "clearCell"
    /\ storeRet' = None
    /\ IF isClueCell(originalBoard, row, col)
       THEN UNCHANGED <<gameBoard, notes, isComplete, hasWon>>
       ELSE /\ gameBoard' = [gameBoard EXCEPT ![row][col] = 0]
            /\ notes' = [notes EXCEPT ![row][col] = <<>>]
            /\ isComplete' = FALSE
            /\ hasWon' = FALSE
    /\ UNCHANGED <<originalBoard, solution, gameDifficulty, selectedCell,
                   elapsedSeconds, timerInterval, isNoteMode, live, created, other>>
    /\ StoreFrame

\* lines 249-258
ValidateBoard ==
    /\ isComplete' = isBoardComplete(gameBoard)
    /\ hasWon' = hasWonOf(isBoardComplete(gameBoard), validateSudokuBoard(gameBoard))
    /\ storeRet' = validateSudokuBoard(gameBoard)
    /\ storeOp' = "validateBoard"
    /\ UNCHANGED <<gameBoard, originalBoard, solution, notes, gameDifficulty, selectedCell,
                   elapsedSeconds, timerInterval, isNoteMode, live, created, other>>
    /\ StoreFrame


----------------------------------------------------------------------------
(* The player *)

MaxValue == 1
MaxNote == 1

\* what the player asks generateNewGame for: the current difficulty, or easy
Requested == {undefined, "easy"}

\* the cells the player touches out of plan: the first clue cell and the last
\* empty cell of the puzzle
firstClue(original) ==
    CHOOSE p \in Cells :
        /\ original[p[1]][p[2]] # 0
        /\ \A q \in Cells :
              original[q[1]][q[2]] # 0 => (q[1] > p[1] \/ (q[1] = p[1] /\ q[2] >= p[2]))

lastEmpty(original) ==
    CHOOSE p \in Cells :
        /\ original[p[1]][p[2]] = 0
        /\ \A q \in Cells :
              original[q[1]][q[2]] = 0 => (q[1] < p[1] \/ (q[1] = p[1] /\ q[2] <= p[2]))

TouchedCells(original) ==
    (IF \E p \in Cells : original[p[1]][p[2]] # 0 THEN {firstClue(original)} ELSE {})
    \cup (IF \E p \in Cells : original[p[1]][p[2]] = 0 THEN {lastEmpty(original)} ELSE {})

Agrees(b, g) == g # None /\ \A p \in Cells : b[p[1]][p[2]] \in {0, g[p[1]][p[2]]}

\* the next move of a player who fills the first empty cell from a full grid
\* the board still agrees with
PlannedMoves ==
    IF findEmptyCell(gameBoard) = None THEN {}
    ELSE {<<findEmptyCell(gameBoard)[1], findEmptyCell(gameBoard)[2],
            g[findEmptyCell(gameBoard)[1]][findEmptyCell(gameBoard)[2]]>> :
                g \in {h \in {solution, other} : Agrees(gameBoard, h)}}

TouchMoves == {<<p[1], p[2], v>> : p \in TouchedCells(originalBoard), v \in 0..MaxValue}

StoreNext ==
    \/ \E d \in Requested : GenerateNewGame(d)
    \/ \E m \in PlannedMoves \cup TouchMoves : SetCellValue(m[1], m[2], m[3])
    \/ \E p \in TouchedCells(originalBoard) : ClearCell(p[1], p[2])
    \/ \E p \in TouchedCells(originalBoard) : \E v \in 1..MaxNote : ToggleNote(p[1], p[2], v)
    \/ ResetGame
    \/ CheckSolution
    \/ ValidateBoard

SpecStore == StoreInit /\ [][StoreNext]_vars


----------------------------------------------------------------------------
(* Store: winning *)

Judged == storeOp \in {"setCellValue", "checkSolution", "validateBoard"}

\* C13: hasWon is true only on a board with no empty cell that passes
\* validateSudokuBoard; right after setCellValue, checkSolution or
\* validateBoard hasWon is exactly "complete and valid". The stored solution
\* plays no part: a valid completion that differs from it wins as well.
C13_HasWonIsCompleteAndValid ==
    /\ hasWon => NoEmptyCell(gameBoard) /\ validateSudokuBoard(gameBoard)
    /\ Judged => (hasWon <=> (NoEmptyCell(gameBoard) /\ validateSudokuBoard(gameBoard)))

\* a game won with a grid that is not the stored solution
C13_Witness ==
    /\ storeOp = "setCellValue"
    /\ hasWon
    /\ solution # None
    /\ gameBoard # solution


----------------------------------------------------------------------------
(* Store: clue cells *)

ClueCellsKept ==
    \A p \in Cells :
        originalBoard[p[1]][p[2]] # 0 => gameBoard[p[1]][p[2]] = originalBoard[p[1]][p[2]]

\* C16: a clue cell never changes during play: after every step of the store
\* each cell whose originalBoard value is non-zero holds that value in board,
\* and originalBoard changes only in generateNewGame.
C16_ClueCellsNeverChange ==
    [][/\ ClueCellsKept'
       /\ originalBoard' # originalBoard => storeOp' = "generateNewGame"]_vars

\* clearCell called on a clue cell of a won game: it returned before
\* clearing the flags
C16_Witness ==
    /\ storeOp = "clearCell"
    /\ hasWon
    /\ originalBoard[firstClue(originalBoard)[1]][firstClue(originalBoard)[2]] # 0
    /\ ClueCellsKept


----------------------------------------------------------------------------
(* The seed of the generator *)

\* `${today}-${difficulty}` (line 378)
difficultySpecificSeed(date, difficulty) ==
    getGTMDate(date) \o <<"-">> \o DifficultyString[difficulty]

\* let s = 0; for (...) s += seed.charCodeAt(i) (lines 349-350): the state of
\* seededRandom before the first draw
initialState(seed) == SumCodes(seed, 1)

CalendarDays == 4

\* the UTC days compared: the 14th and the days after it, of May and June 2024
Calendar ==
    {[year |-> 2024, month |-> m, day |-> d] : m \in 5..6, d \in 14..(13 + CalendarDays)}

SeedInit == CallerInit({EmptyBoard}) /\ GeneratorIdle /\ StoreIdle /\ ServerIdle

\* seededRandom is called with the seeds of two days and one difficulty
CallSeededRandom(a, b, difficulty) ==
    /\ op' = "seededRandom"
    /\ args' = <<a, b, difficulty>>
    /\ ret' = <<initialState(difficultySpecificSeed(a, difficulty)),
                initialState(difficultySpecificSeed(b, difficulty))>>
    /\ UNCHANGED <<heap, grid, given, filled, wrote, copyRows, search>>
    /\ UNCHANGED generatorVars
    /\ UNCHANGED storeVars /\ UNCHANGED serverVars

SeedNext == \E a \in Calendar : \E b \in Calendar : \E d \in Difficulties : CallSeededRandom(a, b, d)

SpecSeed == SeedInit /\ [][SeedNext]_vars

\* C17: the seed hash separates days: the seeds of two different UTC days and
\* the same difficulty give different initial states of seededRandom, also
\* when one day key is a rearrangement of the digits of the other.
C17_DifferentDaysDifferentSeeds ==
    (op = "seededRandom" /\ args[1] # args[2]) => ret[1] # ret[2]


----------------------------------------------------------------------------
(* The solved grid of the generator *)

SwapSpan == 6

Rotated(k) == [i \in 1..9 |-> ((i - 1 + k) % 9) + 1]

\* first rows: the rotations of 1..9, each also with two of its first
\* SwapSpan entries exchanged
FirstRows == {Swap(Rotated(k), a, b) : k \in 0..8, a \in 1..SwapSpan, b \in 1..SwapSpan}

\* args is the first row that the shuffle will produce
SolvedInit ==
    /\ grid = [r \in Idx |-> r + 1]
    /\ heap = [id \in 1..9 |-> EmptyBoard[id - 1]]
    /\ given = EmptyBoard
    /\ op = "none"
    /\ args \in FirstRows
    /\ ret = FALSE
    /\ filled = 0
    /\ wrote = {}
    /\ copyRows = {}
    /\ search = None
    /\ GeneratorIdle
    /\ StoreIdle
    /\ ServerIdle

\* generateSolvedBoard with args as the shuffled digits: given is the grid
\* handed to the solver, ret the grid returned (None for null)
CallGenerateSolvedBoard ==
    /\ op' = "generateSolvedBoard"
    /\ given' = seedBoard(args)
    /\ ret' = generateSolvedBoardFrom(args)
    /\ UNCHANGED <<heap, grid, args, filled, wrote, copyRows, search>>
    /\ UNCHANGED generatorVars
    /\ UNCHANGED storeVars /\ UNCHANGED serverVars

SolvedNext == CallGenerateSolvedBoard

SpecSolved == SolvedInit /\ [][SolvedNext]_vars

\* C21: before generateSolvedBoard runs the solver, row 0 of the grid holds
\* the permutation, cells (1,0), (1,1), (1,2) and cells (2,0), (2,1), (2,2)
\* hold non-zero values taken from row 0 by a cyclic shift by 3, and every
\* other cell is 0.
C21_SeedGridHasRowsOneAndTwoFilled ==
    op = "generateSolvedBoard" =>
        /\ \A c \in Idx : given[0][c] = args[c + 1]
        /\ {given[0][c] : c \in Idx} = Digits
        /\ \A j \in 0..2 : given[1][j] = given[0][j + 3]
        /\ \A j \in 0..2 : given[2][j] # 0 /\ given[2][j] \in {given[0][c] : c \in Idx}
        /\ \A r \in Idx : \A c \in Idx :
              (r >= 3 \/ (r >= 1 /\ c >= 3)) => given[r][c] = 0

\* C22: for every permutation of 1..9 in row 0 the grid generateSolvedBoard
\* builds has no repeated digit in a unit and solveBoard completes it:
\* generateSolvedBoard returns a full valid grid that keeps the cells built,
\* never null.
C22_SeedGridIsAlwaysCompleted ==
    op = "generateSolvedBoard" =>
        /\ validateSudokuBoard(given)
        /\ ret # None
        /\ CarvedFrom(given, ret)
        /\ NoEmptyCell(ret)
        /\ NoRepeatedDigit(ret)

\* a first row that is not a rotation of 1..9, completed to a full grid
C22_Witness ==
    /\ op = "generateSolvedBoard"
    /\ args[1] = 2 /\ args[2] = 1
    /\ ret # None
    /\ NoEmptyCell(ret)
    /\ given[1][0] = args[4]

----------------------------------------------------------------------------
(* Solver: which completion is found *)

\* the cells of a grid in row-major order
RowMajor(b) == [k \in 1..81 |-> b[(k - 1) \div 9][(k - 1) % 9]]

\* a comes before b, or is b, in lexicographic order of the row-major cells
LexLeq(a, b) ==
    \/ a = b
    \/ \E k \in 1..81 :
          /\ RowMajor(a)[k] < RowMajor(b)[k]
          /\ \A j \in 1..(k - 1) : RowMajor(a)[j] = RowMajor(b)[j]

\* the grid b with its empty cells filled by f
Filled(b, f) == [r \in Idx |-> [c \in Idx |-> IF b[r][c] = 0 THEN f[<<r, c>>] ELSE b[r][c]]]

\* C25: when solveBoard returns true on a grid whose given cells have no
\* conflict, the grid it leaves is a valid completion, no valid completion
\* comes before it in row-major lexicographic order, and every given cell
\* keeps its value.
C25_SolvedIsSmallestCompletion ==
    (op = "solveBoard" /\ ret = TRUE /\ NoRepeatedDigit(given))
        => /\ \A p \in Cells : given[p[1]][p[2]] # 0 => Current[p[1]][p[2]] = given[p[1]][p[2]]
           /\ Cardinality(EmptyCells(given)) <= MaxCounted =>
                 /\ \E f \in Completions(given) : Filled(given, f) = Current
                 /\ \A f \in Completions(given) : LexLeq(Current, Filled(given, f))

\* solveBoard returned true on a grid with two valid completions
C25_Witness ==
    /\ op = "solveBoard"
    /\ ret = TRUE
    /\ Cardinality(EmptyCells(given)) \in 1..MaxCounted
    /\ Cardinality(Completions(given)) = 2

----------------------------------------------------------------------------
(* The uniqueness search, step by step (solver.ts, lines 52-92) *)

\* SolvedGrid with the rows from r0 on emptied
ZeroedFrom(r0) == [r \in Idx |-> [c \in Idx |-> IF r >= r0 THEN 0 ELSE SolvedGrid[r][c]]]

MaxEmptyRows == 3

CountBoards ==
    {ZeroedFrom(9 - k) : k \in 0..MaxEmptyRows}
    \cup {ApplyChoices(SolvedGrid, choice, 1) : choice \in [Window -> {"keep", "zero"}]}

CountInit == CallerInit(CountBoards) /\ GeneratorIdle /\ StoreIdle /\ ServerIdle

CountFrame ==
    /\ UNCHANGED <<heap, grid, given, args, filled, wrote, copyRows>>
    /\ UNCHANGED generatorVars
    /\ UNCHANGED storeVars /\ UNCHANGED serverVars

\* lines 54-57 and 89: the copy is made, solutionCount = 0, the search is called
BeginHasUniqueSolution ==
    /\ search = None
    /\ search' = [board |-> Deref(heap, grid), stack |-> <<>>, pc |-> "call",
                  count |-> 0, wrote |-> {}]
    /\ UNCHANGED <<op, ret>>
    /\ CountFrame

\* lines 61-73: a call of countSolutions is entered
EnterCountSolutions ==
    /\ search # None
    /\ search.pc = "call"
    /\ search' = countSolutionsStep(search)
    /\ UNCHANGED <<op, ret>>
    /\ CountFrame

\* lines 76-79: the loop finds the next valid digit and assigns it, or ends
TryNextDigit ==
    /\ search # None
    /\ search.pc = "loop"
    /\ search' = countSolutionsStep(search)
    /\ UNCHANGED <<op, ret>>
    /\ CountFrame

\* lines 80-84: a call has returned; the cell is reset
ReturnFromCountSolutions ==
    /\ search # None
    /\ search.pc = "ret"
    /\ search' = countSolutionsStep(search)
    /\ UNCHANGED <<op, ret>>
    /\ CountFrame

\* line 91
EndHasUniqueSolution ==
    /\ search # None
    /\ search.pc = "done"
    /\ op = "none"
    /\ op' = "hasUniqueSolution"
    /\ ret' = (search.count = 1)
    /\ UNCHANGED search
    /\ CountFrame

CountNext ==
    \/ BeginHasUniqueSolution
    \/ EnterCountSolutions
    \/ TryNextDigit
    \/ ReturnFromCountSolutions
    \/ EndHasUniqueSolution

SpecCount == CountInit /\ [][CountNext]_vars

\* a cell of a that is empty or holds another digit holds a digit in b
DigitAssigned(a, b) == \E p \in Cells : b[p[1]][p[2]] # 0 /\ b[p[1]][p[2]] # a[p[1]][p[2]]

Searching == search # None /\ search' # None

\* C24: during hasUniqueSolution the solution counter never exceeds 2: once a
\* second complete assignment has been counted, no step of the search assigns
\* a digit to a cell or counts another solution before the search returns.
C24_CounterStopsAtTwo ==
    [][Searching =>
          /\ search'.count <= 2
          /\ search.count >= 2 =>
                (search'.count = search.count /\ ~DigitAssigned(search.board, search'.board))]_vars

\* a search that counted two solutions on a grid with three empty rows and
\* has returned
C24_Witness ==
    /\ search # None
    /\ search.pc = "done"
    /\ search.count = 2
    /\ Cardinality(EmptyCells(search.board)) = 27

----------------------------------------------------------------------------
(* The generator's cache and the caller's grid as row objects               *)
(* (stores/useSudoku.ts, lines 296-302 and 462-477)                         *)

\* In this part dailyPuzzles[d].solvedBoard is an array of row ids, grid is
\* the array of row ids of the grid returned last, and heap holds the rows.

\* nine new row objects holding board (generateSolvedBoard returns boardCopy)
allocate(h, board) ==
    [ref  |-> [r \in Idx |-> Cardinality(DOMAIN h) + 1 + r],
     heap |-> [id \in 1..(Cardinality(DOMAIN h) + 9) |->
                 IF id <= Cardinality(DOMAIN h) THEN h[id]
                 ELSE board[id - Cardinality(DOMAIN h) - 1]]]

\* variant: solvedBoard.map((row) => row), the rows of the cached grid
mapSameRows(h, ref) == [ref |-> ref, heap |-> h]

\* line 469: solvedBoard.map((row) => [...row])
mapSpreadRows(h, ref) == copyBoard(h, ref)

\* lines 472-476: puzzle[r][c] = 0 for the cells outside keepSet
carveRows(h, ref, keepSet) == WriteBack(h, ref, carveWith(Deref(h, ref), keepSet))

\* the row objects still referenced by the cache or by the caller
Reachable(cache, g) ==
    {g[r] : r \in Idx}
    \cup UNION {{cache[d].solvedBoard[r] : r \in Idx} :
                    d \in {e \in Difficulties : cache[e] # None}}

Rank(R, id) == Cardinality({x \in R : x <= id})

\* the unreferenced rows are dropped; the others keep their order
Collect(h, cache, g) ==
    [heap  |-> [n \in 1..Cardinality(Reachable(cache, g)) |->
                    h[CHOOSE id \in Reachable(cache, g) : Rank(Reachable(cache, g), id) = n]],
     cache |-> [d \in Difficulties |->
                    IF cache[d] = None THEN None
                    ELSE [cache[d] EXCEPT !.solvedBoard =
                            [r \in Idx |-> Rank(Reachable(cache, g), cache[d].solvedBoard[r])]]],
     grid  |-> [r \in Idx |-> Rank(Reachable(cache, g), g[r])]]

CacheKeys == {1} \X Difficulties

CacheInit ==
    /\ CallerInit({EmptyBoard})
    /\ StoreIdle
    /\ ServerIdle
    /\ rng = 1
    /\ generated = [k \in CacheKeys |->
                        generate(1, Days[k[1]], k[2], regenerate(1, Days[k[1]], k[2]))]
    /\ now = 1
    /\ dailyPuzzles = [d \in Difficulties |-> None]
    /\ request = None
    /\ puzzle = None
    /\ path = "none"
    /\ verdict = "none"
    /\ first = [k \in CacheKeys |-> None]
    /\ repeat = FALSE

\* generateSudokuPuzzle(difficulty) on row objects; the final tests of
\* lines 480-481 work on copies
CallOnRows(difficulty) ==
    \E today \in {getGTMDate(Days[now])} :
    \E miss \in {cacheMiss(dailyPuzzles, difficulty, today)} :
    \E fresh \in {IF miss THEN generated[<<now, difficulty>>].entry ELSE None} :
    \E made \in {IF miss THEN allocate(heap, fresh.solvedBoard)
                  ELSE [ref |-> dailyPuzzles[difficulty].solvedBoard, heap |-> heap]} :
    \E cache \in {IF miss
                   THEN [dailyPuzzles EXCEPT ![difficulty] =
                            [date |-> today, solvedBoard |-> made.ref,
                             cellsToKeep |-> fresh.cellsToKeep]]
                   ELSE dailyPuzzles} :
    \E cp \in {mapSpreadRows(made.heap, cache[difficulty].solvedBoard)} :
    \E carved \in {carveRows(cp.heap, cp.ref,
                              keySet(cluesKept(cache[difficulty].cellsToKeep,
                                               getDifficultyClues(difficulty))))} :
    \E kept \in {Collect(carved, cache, cp.ref)} :
        /\ heap' = kept.heap
        /\ grid' = kept.grid
        /\ op' = "generateSudokuPuzzle"
        /\ Returns(difficulty, kept.cache,
                   IF ~miss THEN "hit" ELSE IF fresh.found THEN "unique" ELSE "fallback",
                   Deref(carved, cp.ref), verdictOf(generated, Deref(carved, cp.ref)))
        /\ UNCHANGED <<given, args, ret, filled, wrote, copyRows, search>>
        /\ UNCHANGED storeVars /\ UNCHANGED serverVars

WriteCells == {<<0, 0>>, <<8, 8>>}

WriteValues == {0, 9}

\* the caller writes a cell of the grid it was returned
CallerWrites(row, col, value) ==
    /\ op # "none"
    /\ heap' = [heap EXCEPT ![grid[row]][col] = value]
    /\ op' = "write"
    /\ UNCHANGED <<grid, given, args, ret, filled, wrote, copyRows, search>>
    /\ UNCHANGED generatorVars
    /\ UNCHANGED storeVars /\ UNCHANGED serverVars

\* the page is reloaded: the module is evaluated again, the rows are dropped
RestartOnRows ==
    /\ \E d \in Difficulties : dailyPuzzles[d] # None
    /\ \E kept \in {Collect(heap, [d \in Difficulties |-> None], grid)} :
        /\ heap' = kept.heap
        /\ grid' = kept.grid
        /\ dailyPuzzles' = kept.cache
    /\ op' = "restart"
    /\ UNCHANGED <<rng, generated, now, request, puzzle, path, verdict, first, repeat>>
    /\ UNCHANGED <<given, args, ret, filled, wrote, copyRows, search>>
    /\ UNCHANGED storeVars /\ UNCHANGED serverVars

CacheNext ==
    \/ \E difficulty \in Difficulties : CallOnRows(difficulty)
    \/ \E p \in WriteCells : \E v \in WriteValues : CallerWrites(p[1], p[2], v)
    \/ RestartOnRows

SpecCache == CacheInit /\ [][CacheNext]_vars

Cached == {d \in Difficulties : dailyPuzzles[d] # None}

\* the entry of d is the same after the step: date, list and solved grid
EntryKept(d) ==
    /\ (dailyPuzzles'[d] = None) <=> (dailyPuzzles[d] = None)
    /\ dailyPuzzles[d] # None =>
          /\ dailyPuzzles'[d].date = dailyPuzzles[d].date
          /\ dailyPuzzles'[d].cellsToKeep = dailyPuzzles[d].cellsToKeep
          /\ Deref(heap', dailyPuzzles'[d].solvedBoard) = Deref(heap, dailyPuzzles[d].solvedBoard)

\* C26: a call generateSudokuPuzzle(d) leaves the entries of the other two
\* difficulties unchanged and, on a cache hit, the entry of d as well; the
\* returned grid shares no row object with a cached solved grid, so a write
\* by the caller to the returned grid changes no cached solved grid, and
\* every call returns the grid computed for its day and difficulty.
C26_CallsAndWritesLeaveCache ==
    /\ [][op' = "generateSudokuPuzzle" =>
            /\ \A d \in Difficulties \ {request'.difficulty} : EntryKept(d)
            /\ path' = "hit" => EntryKept(request'.difficulty)]_vars
    /\ [][op' = "write" => \A d \in Difficulties : EntryKept(d)]_vars
    /\ [](\A d \in Cached :
            /\ {grid[r] : r \in Idx} \cap {dailyPuzzles[d].solvedBoard[r] : r \in Idx} = {}
            /\ Deref(heap, dailyPuzzles[d].solvedBoard) = generated[<<now, d>>].entry.solvedBoard)
    /\ [](op = "generateSudokuPuzzle" =>
            /\ Deref(heap, grid) = puzzle
            /\ puzzle = generated[<<request.day, request.difficulty>>].puzzle)

\* the caller has changed the grid it was returned while all three
\* difficulties are cached
C26_Witness ==
    /\ op = "write"
    /\ Deref(heap, grid) # puzzle
    /\ Cardinality(Cached) = 3

----------------------------------------------------------------------------
(* The leaderboard server (server/routes.ts, lines 49-101;                  *)
(* server/storage.ts, lines 188-220)                                        *)

\* A puzzle id is `${date}-${difficulty}-${hash}`; here it is the record of
\* its parts.  An entry is the stored row; a post is a request being handled:
\* its body, the client's address and the place its handler has reached.

ClientIps == {"10.0.0.1", "10.0.0.2"}

PuzzleDates == {<<"2024", "05", "16">>}

PostedDifficulties == {"easy", "hard"}

MaxPosts == 3

\* puzzle_id.split('-').slice(0, 3).join('-')
dateStrOf(puzzle_id) == puzzle_id.date

\* entry.puzzle_id.startsWith(`${dateStr}-${difficulty}`)
startsWithPrefix(puzzle_id, dateStr, difficulty) ==
    puzzle_id.date = dateStr /\ puzzle_id.difficulty = difficulty

\* storage.ts, lines 207-220
checkDuplicateSubmission(rows, ip, dateStr, difficulty) ==
    SelectSeq(rows, LAMBDA entry :
        /\ entry.difficulty = difficulty
        /\ startsWithPrefix(entry.puzzle_id, dateStr, difficulty)
        /\ entry.ip_address = ip)

\* storage.ts, lines 188-206: the row the insert returns
saveScore(rows, score) ==
    Append(rows, [id         |-> Len(rows) + 1,
                  difficulty |-> score.difficulty,
                  puzzle_id  |-> score.puzzle_id,
                  ip_address |-> score.ip_address])

ServerInit ==
    /\ CallerInit({EmptyBoard})
    /\ GeneratorIdle
    /\ StoreIdle
    /\ ServerIdle

ServerFrame == UNCHANGED solverVars /\ UNCHANGED generatorVars /\ UNCHANGED storeVars

\* routes.ts, lines 49-73: the request arrives, the body passes validation,
\* the handler reaches `await storage.checkDuplicateSubmission(...)`
ReceivePost(ip, date, difficulty) ==
    /\ Len(posts) < MaxPosts
    /\ posts' = Append(posts,
                       [ip         |-> ip,
                        body       |-> [difficulty |-> difficulty,
                                        puzzle_id  |-> [date |-> date, difficulty |-> difficulty,
                                                        hash |-> Len(posts) + 1]],
                        pc         |-> "check",
                        status     |-> 0])
    /\ UNCHANGED leaderboards
    /\ ServerFrame

\* routes.ts, lines 74-82: the query runs and the handler goes on
CheckDuplicate(i) ==
    /\ posts[i].pc = "check"
    /\ posts' = [posts EXCEPT ![i] =
                    IF Len(checkDuplicateSubmission(leaderboards, posts[i].ip,
                                                    dateStrOf(posts[i].body.puzzle_id),
                                                    posts[i].body.difficulty)) > 0
                    THEN [@ EXCEPT !.pc = "done", !.status = 400]
                    ELSE [@ EXCEPT !.pc = "save"]]
    /\ UNCHANGED leaderboards
    /\ ServerFrame

\* routes.ts, lines 84-96: ip_address is set, the insert runs, 201 is sent
SaveScore(i) ==
    /\ posts[i].pc = "save"
    /\ leaderboards' = saveScore(leaderboards,
                                 [difficulty |-> posts[i].body.difficulty,
                                  puzzle_id  |-> posts[i].body.puzzle_id,
                                  ip_address |-> posts[i].ip])
    /\ posts' = [posts EXCEPT ![i] = [@ EXCEPT !.pc = "done", !.status = 201]]
    /\ ServerFrame

ServerNext ==
    \/ \E ip \in ClientIps, date \in PuzzleDates, difficulty \in PostedDifficulties :
            ReceivePost(ip, date, difficulty)
    \/ \E i \in 1..Len(posts) : CheckDuplicate(i)
    \/ \E i \in 1..Len(posts) : SaveScore(i)

SpecServer == ServerInit /\ [][ServerNext]_vars

SameSubmission(a, b) ==
    /\ a.ip_address = b.ip_address
    /\ a.puzzle_id.date = b.puzzle_id.date
    /\ a.difficulty = b.difficulty

\* C27: the leaderboard holds at most one entry per client address, puzzle
\* date and difficulty, also when the duplicate checks and the saves of two
\* POSTs of one client for the same date and difficulty are interleaved.
C27_OneEntryPerClientDateDifficulty ==
    \A i \in 1..Len(leaderboards) : \A j \in 1..Len(leaderboards) :
        i # j => ~SameSubmission(leaderboards[i], leaderboards[j])

----------------------------------------------------------------------------
(* The game store: timer, note mode, selection                              *)
(* (stores/useSudoku.ts, lines 66-73, 176-179, 260-289;                     *)
(*  queryClient.ts, lines 484-524)                                          *)

BoardFrame ==
    /\ UNCHANGED <<gameBoard, originalBoard, solution, notes, gameDifficulty,
                   isComplete, hasWon, storeRet, other>>
    /\ StoreFrame

MaxIntervals == 2

MaxSeconds == 2

\* variant: the test of line 265 is missing
hasIntervalNever(interval) == FALSE

\* timerInterval !== null (lines 265, 280)
hasInterval(interval) == interval # null

\* lines 261-275; window.setInterval returns a new id
StartTimer ==
    /\ hasInterval(timerInterval) \/ created < MaxIntervals
    /\ IF hasInterval(timerInterval)
       THEN UNCHANGED <<timerInterval, live, created>>
       ELSE /\ created' = created + 1
            /\ live' = live \cup {created + 1}
            /\ timerInterval' = created + 1
    /\ storeOp' = "startTimer"
    /\ UNCHANGED <<elapsedSeconds, isNoteMode, selectedCell>>
    /\ BoardFrame

\* lines 277-285
StopTimer ==
    /\ IF hasInterval(timerInterval)
       THEN /\ live' = live \ {timerInterval}
            /\ timerInterval' = null
       ELSE UNCHANGED <<timerInterval, live>>
    /\ storeOp' = "stopTimer"
    /\ UNCHANGED <<created, elapsedSeconds, isNoteMode, selectedCell>>
    /\ BoardFrame

\* lines 287-289
ResetTimer ==
    /\ elapsedSeconds' = 0
    /\ storeOp' = "resetTimer"
    /\ UNCHANGED <<timerInterval, live, created, isNoteMode, selectedCell>>
    /\ BoardFrame

\* resetTimer of queryClient.ts (lines 511-524): the interval is cleared too
ResetTimerAndInterval ==
    /\ live' = IF hasInterval(timerInterval) THEN live \ {timerInterval} ELSE live
    /\ elapsedSeconds' = 0
    /\ timerInterval' = null
    /\ storeOp' = "resetTimer"
    /\ UNCHANGED <<created, isNoteMode, selectedCell>>
    /\ BoardFrame

\* the callback of a running interval (lines 269-271)
Tick(interval) ==
    /\ interval \in live
    /\ elapsedSeconds < MaxSeconds
    /\ elapsedSeconds' = elapsedSeconds + 1
    /\ storeOp' = "tick"
    /\ UNCHANGED <<timerInterval, live, created, isNoteMode, selectedCell>>
    /\ BoardFrame

\* lines 177-179
ToggleNoteMode ==
    /\ isNoteMode' = ~isNoteMode
    /\ storeOp' = "toggleNoteMode"
    /\ UNCHANGED <<timerInterval, live, created, elapsedSeconds, selectedCell>>
    /\ BoardFrame

\* lines 71-73
SetSelectedCell(cell) ==
    /\ selectedCell' = cell
    /\ storeOp' = "setSelectedCell"
    /\ UNCHANGED <<timerInterval, live, created, elapsedSeconds, isNoteMode>>
    /\ BoardFrame

\* the store with the games of one stream of pseudo-random values
PlayInit ==
    /\ CallerInit({EmptyBoard})
    /\ StoreCreated
    /\ ServerIdle
    /\ rng = 1
    /\ generated = [k \in StoreKeys |->
                        generate(1, Days[k[1]], k[2], regenerate(1, Days[k[1]], k[2]))]
    /\ solved = [k \in DOMAIN generated |-> plansFor(generated[k].puzzle)]
    /\ now = 1
    /\ dailyPuzzles = [d \in Difficulties |-> None]
    /\ request = None
    /\ puzzle = None
    /\ path = "none"
    /\ verdict = "none"
    /\ first = [k \in StoreKeys |-> None]
    /\ repeat = FALSE

TimerNext ==
    \/ StartTimer
    \/ StopTimer
    \/ ResetTimer
    \/ ResetTimerAndInterval
    \/ \E interval \in live : Tick(interval)
    \/ \E d \in Requested : GenerateNewGame(d)

SpecTimer == PlayInit /\ [][TimerNext]_vars

\* C28: after any interleaving of startTimer, stopTimer, resetTimer,
\* generateNewGame and interval ticks at most one interval is live and
\* timerInterval is non-null exactly when an interval is live (it is that
\* interval); startTimer with a live interval creates no second one; while
\* timerInterval is null no tick increases elapsedSeconds.
C28_AtMostOneLiveInterval ==
    /\ [](/\ Cardinality(live) <= 1
          /\ (timerInterval # null) <=> (live # {})
          /\ live \subseteq {timerInterval})
    /\ [][(storeOp' = "startTimer" /\ live # {}) => (live' = live /\ created' = created)]_vars
    /\ [][timerInterval = null => elapsedSeconds' <= elapsedSeconds]_vars

\* a tick of the second interval, created after the first was stopped
C28_Witness ==
    /\ storeOp = "tick"
    /\ created = 2
    /\ live = {2}
    /\ elapsedSeconds > 0

----------------------------------------------------------------------------
(* The game store: notes and reset *)

MaxNoteValue == 2

\* the player fills and clears the touched cells, takes notes and resets
NotesNext ==
    \/ \E d \in Requested : GenerateNewGame(d)
    \/ \E m \in TouchMoves : SetCellValue(m[1], m[2], m[3])
    \/ \E p \in TouchedCells(originalBoard) : ClearCell(p[1], p[2])
    \/ \E p \in TouchedCells(originalBoard) : \E v \in 1..MaxNoteValue : ToggleNote(p[1], p[2], v)
    \/ ResetGame

SpecNotes == PlayInit /\ [][NotesNext]_vars

\* the values of a list
Values(seq) == {seq[i] : i \in 1..Len(seq)}

NotesOnlyOnEmptyCells == \A p \in Cells : gameBoard[p[1]][p[2]] # 0 => notes[p[1]][p[2]] = <<>>

\* the cells toggleNote works on
NoteCells == {p \in Cells : originalBoard[p[1]][p[2]] = 0 /\ gameBoard[p[1]][p[2]] = 0}

\* C29 as stated: a cell with a non-zero value has an empty note list, and on
\* an empty non-clue cell toggleNote with the same value twice gives back the
\* note list it started from.
C29_TwiceRestoresNoteList ==
    /\ NotesOnlyOnEmptyCells
    /\ \A p \in NoteCells : \A v \in 1..MaxNoteValue :
          toggled(toggled(notes[p[1]][p[2]], v), v) = notes[p[1]][p[2]]

\* C29 amended: a cell with a non-zero value has an empty note list, and on
\* an empty non-clue cell toggleNote with the same value twice gives back the
\* same notes as a set of values, without duplicates; the list itself is the
\* same when the value was absent or was the last one of the list.
C29_TwiceRestoresNoteValues ==
    /\ NotesOnlyOnEmptyCells
    /\ \A p \in NoteCells : \A v \in 1..MaxNoteValue :
          /\ Values(toggled(toggled(notes[p[1]][p[2]], v), v)) = Values(notes[p[1]][p[2]])
          /\ Len(toggled(toggled(notes[p[1]][p[2]], v), v)) = Len(notes[p[1]][p[2]])
          /\ Cardinality(Values(notes[p[1]][p[2]])) = Len(notes[p[1]][p[2]])
          /\ (indexOf(notes[p[1]][p[2]], v) \in {0, Len(notes[p[1]][p[2]])}) =>
                toggled(toggled(notes[p[1]][p[2]], v), v) = notes[p[1]][p[2]]

\* toggleNote has left two notes in an order that a double toggle of the
\* first one changes
C29_Witness ==
    /\ storeOp = "toggleNote"
    /\ \E p \in NoteCells : notes[p[1]][p[2]] = <<2, 1>>

\* the player fills the touched cells, takes a note, selects a cell, switches
\* the note mode and resets, while the timer runs
ResetNext ==
    \/ \E d \in Requested : GenerateNewGame(d)
    \/ \E m \in TouchMoves : SetCellValue(m[1], m[2], m[3])
    \/ \E p \in TouchedCells(originalBoard) : ToggleNote(p[1], p[2], 1)
    \/ ResetGame
    \/ ToggleNoteMode
    \/ \E p \in TouchedCells(originalBoard) : SetSelectedCell(p)
    \/ StartTimer
    \/ \E interval \in live : Tick(interval)

SpecReset == PlayInit /\ [][ResetNext]_vars

\* C30: resetGame sets board to a copy of originalBoard, empties all notes,
\* clears selectedCell, sets isComplete and hasWon to false and leaves
\* originalBoard, solution, difficulty, isNoteMode, elapsedSeconds and
\* timerInterval unchanged; the state it leaves is the state a second call
\* leaves.
C30_ResetGameFrame ==
    /\ [][storeOp' = "resetGame" =>
            /\ gameBoard' = originalBoard
            /\ notes' = emptyNotes
            /\ selectedCell' = None
            /\ isComplete' = FALSE
            /\ hasWon' = FALSE
            /\ UNCHANGED <<originalBoard, solution, gameDifficulty, isNoteMode,
                           elapsedSeconds, timerInterval>>]_vars
    /\ [](storeOp = "resetGame" =>
            /\ gameBoard = originalBoard
            /\ notes = emptyNotes
            /\ selectedCell = None
            /\ isComplete = FALSE
            /\ hasWon = FALSE)

\* resetGame was called in note mode while the timer was running
C30_Witness ==
    /\ storeOp = "resetGame"
    /\ isNoteMode
    /\ elapsedSeconds > 0
    /\ timerInterval # null
    /\ solution # None

----------------------------------------------------------------------------
(* Generator with the per-difficulty cache (sudoku/generator.ts, lines 162-435) *)

\* getGTMDate of generator.ts (line 177): month and day are not padded
getGTMDateLib(date) ==
    NumberToString(date.year) \o <<"-">> \o NumberToString(date.month)
        \o <<"-">> \o NumberToString(date.day)

getDifficultyCluesLib(difficulty) ==
    CASE difficulty = "easy"   -> 50
      [] difficulty = "medium" -> 35
      [] difficulty = "hard"   -> 20
      [] OTHER -> 35

\* lines 292-297: the first 30 of each ordering, duplicates dropped
uniqueCellsOfLib(shuffledCells, alternateShuffledCells) ==
    cellsOf(uniqueKeys(keysOf(slice(shuffledCells, 30) \o slice(alternateShuffledCells, 30))))

\* one pass of the while loop (lines 288-324); minRequiredClues = 20 (line 281)
attemptLib(u, seed, additionalSeed, L) ==
    attemptWith(u, seed, additionalSeed, L, 20,
                uniqueCellsOfLib(L.shuffledCells, L.alternateShuffledCells))

\* while (!uniqueSolutionFound && attempts < 5): at most 2^k more passes
RECURSIVE searchLoopLib(_, _, _, _, _)
searchLoopLib(k, u, seed, additionalSeed, L) ==
    IF L.uniqueSolutionFound \/ ~(L.attempts < 5) THEN L
    ELSE IF k = 0 THEN attemptLib(u, seed, additionalSeed, L)
    ELSE searchLoopLib(k - 1, u, seed, additionalSeed,
                       searchLoopLib(k - 1, u, seed, additionalSeed, L))

\* lines 328-332: the cache entry (found and attempts record the search)
entryOfLib(today, L) ==
    [date        |-> today,
     solvedBoard |-> L.solvedBoard,
     cellsToKeep |-> IF L.uniqueSolutionFound THEN L.finalCellsToKeep ELSE L.shuffledCells,
     found       |-> L.uniqueSolutionFound,
     attempts    |-> L.attempts]

regenerateWithLib(u, today, seed, solvedBoard) ==
    IF solvedBoard = None THEN None    \* throw new Error("Failed to generate solved board ...")
    ELSE entryOfLib(today,
            searchLoopLib(3, u, seed, seed \o <<"-", "u", "n", "i", "q", "u", "e">>,
                   [solvedBoard            |-> solvedBoard,
                    shuffledCells          |-> seededShuffle(u, getAllCellPositions, seed),
                    alternateShuffledCells |->
                        seededShuffle(u, getAllCellPositions,
                                      seed \o <<"-", "u", "n", "i", "q", "u", "e">>),
                    lastShuffled           |-> <<>>,
                    attempts               |-> 0,
                    uniqueSolutionFound    |-> FALSE,
                    finalCellsToKeep       |-> <<>>,
                    testPuzzle             |-> None]))

\* lines 258-337: the entry that a cache miss computes; None when it throws
regenerateLib(u, date, difficulty) ==
    regenerateWithLib(u, getGTMDateLib(date),
        getGTMDateLib(date) \o <<"-">> \o DifficultyString[difficulty],
        generateSolvedBoard(u, getGTMDateLib(date) \o <<"-">> \o DifficultyString[difficulty]))

\* lines 340-357: the grid carved from a cache entry
finalPuzzleLib(entry, difficulty) ==
    carve(entry.solvedBoard, slice(entry.cellsToKeep, getDifficultyCluesLib(difficulty)))

\* lines 359-367: the last test only writes a message; the grid is returned
finalCheckLib(grid9) == IF hasUniqueSolution(grid9) THEN "unique" ELSE "multiple"

generateLib(entry, difficulty) ==
    IF entry = None THEN [entry |-> None, puzzle |-> None, verdict |-> "none"]
    ELSE [entry   |-> entry,
          puzzle  |-> finalPuzzleLib(entry, difficulty),
          verdict |-> finalCheckLib(finalPuzzleLib(entry, difficulty))]

verdictOfLib(table, grid9) ==
    IF \E k \in DOMAIN table : table[k].puzzle = grid9
    THEN table[CHOOSE k \in DOMAIN table : table[k].puzzle = grid9].verdict
    ELSE finalCheckLib(grid9)

UniversesLib == {1, 3}

LibInit ==
    /\ CallerInit({EmptyBoard})
    /\ StoreIdle
    /\ ServerIdle
    /\ \E u \in UniversesLib :
        /\ rng = u
        /\ generated = [k \in Keys |->
                            generateLib(regenerateLib(u, Days[k[1]], k[2]), k[2])]
    /\ now = 1
    /\ dailyPuzzles = [d \in Difficulties |-> None]
    /\ request = None
    /\ puzzle = None
    /\ path = "none"
    /\ verdict = "none"
    /\ first = [k \in Keys |-> None]
    /\ repeat = FALSE

\* the call's effect on the generator's state (lines 254-368)
generateSudokuPuzzleLib(difficulty) ==
    \E today \in {getGTMDateLib(Days[now])} :
    \E miss \in {cacheMiss(dailyPuzzles, difficulty, today)} :
    \E fresh \in {IF miss THEN generated[<<now, difficulty>>].entry ELSE None} :
        IF miss /\ fresh = None
        THEN Returns(difficulty, dailyPuzzles, "threw", None, "none")
        ELSE \E cache \in {IF miss THEN [dailyPuzzles EXCEPT ![difficulty] = stored(fresh)]
                                   ELSE dailyPuzzles} :
             \E grid9 \in {finalPuzzleLib(cache[difficulty], difficulty)} :
             \E result \in {verdictOfLib(generated, grid9)} :
                Returns(difficulty, cache,
                        IF ~miss THEN "hit" ELSE IF fresh.found THEN "unique" ELSE "fallback",
                        grid9, result)

GenerateSudokuPuzzleLib(difficulty) ==
    /\ generateSudokuPuzzleLib(difficulty)
    /\ UNCHANGED solverVars
    /\ UNCHANGED storeVars /\ UNCHANGED serverVars

LibNext ==
    \/ \E difficulty \in Difficulties : GenerateSudokuPuzzleLib(difficulty)
    \/ AdvanceDay
    \/ Restart

SpecLib == LibInit /\ [][LibNext]_vars

====
